---- MODULE Spec2Model ----
(***************************************************************************)
(* A model of the block-level-testing polynomial commitment scheme over    *)
(* binary tower fields: tower-field arithmetic, the packed algebra of 32   *)
(* extension-field lanes, the additive NTT, the rate-4 Reed-Solomon        *)
(* encoder, the Keccak Merkle tree, and commit / prove / verify.           *)
(*                                                                         *)
(* Field elements are the naturals that are their canonical bit encodings. *)
(* The tower is nested (T_k is the set of encodings below 2^(2^k)), so one *)
(* multiplication serves BinaryField32b and BinaryField128b alike.         *)
(* Vectors are sequences; At(s, i) reads source index i (0-based).         *)
(***************************************************************************)
EXTENDS Naturals, Sequences, FiniteSets, TLC

----------------------------------------------------------------------------
(* Sequences with the source's 0-based indices *)

At(s, i) == s[i + 1]

Range0(n) == 0 .. (n - 1)

RECURSIVE Pow2(_)
Pow2(n) == IF n = 0 THEN 1 ELSE 2 * Pow2(n - 1)

\* usize::trailing_zeros, for n > 0
RECURSIVE TrailingZeros(_)
TrailingZeros(n) == IF n % 2 = 1 THEN 0 ELSE 1 + TrailingZeros(n \div 2)

\* usize::is_power_of_two
RECURSIVE IsPowerOfTwo(_)
IsPowerOfTwo(n) == IF n = 0 THEN FALSE ELSE IF n = 1 THEN TRUE
                   ELSE n % 2 = 0 /\ IsPowerOfTwo(n \div 2)

\* v >> i
RECURSIVE Shr(_, _)
Shr(v, i) == IF i = 0 \/ v = 0 THEN v ELSE Shr(v \div 2, i - 1)

\* (v >> i) & 1
Bit(v, i) == Shr(v, i) % 2

----------------------------------------------------------------------------
(* Binary tower field arithmetic                                           *)

RECURSIVE BitXor(_, _)
BitXor(a, b) == IF a = 0 THEN b ELSE IF b = 0 THEN a
                ELSE ((a + b) % 2) + 2 * BitXor(a \div 2, b \div 2)

\* XOR of two nibbles, tabulated once
XorTab == [a \in 0 .. 15 |-> [b \in 0 .. 15 |-> BitXor(a, b)]]

\* Field addition (and subtraction): XOR of the encodings, nibble by nibble
RECURSIVE FAdd(_, _)
FAdd(a, b) == IF a < 16 /\ b < 16 THEN XorTab[a][b]
              ELSE XorTab[a % 16][b % 16] + 16 * FAdd(a \div 16, b \div 16)

\* The least tower level k with v < 2^(2^k)
TowerLevel(v) == IF v < 2 THEN 0
                 ELSE IF v < 4 THEN 1
                 ELSE IF v < 16 THEN 2
                 ELSE IF v < 256 THEN 3
                 ELSE IF v < 65536 THEN 4
                 ELSE 5

\* The generator X_k of T_k over T_(k-1); X_0 = 1
Alpha(k) == IF k = 0 THEN 1 ELSE Pow2(Pow2(k - 1))

\* Multiplication in T_k by the tower recurrence
\* X_k^2 = X_k * X_(k-1) + 1, with a = a0 + a1*X_k and b = b0 + b1*X_k:
\* a*b = (a0*b0 + a1*b1) + (a0*b1 + a1*b0 + a1*b1*X_(k-1)) * X_k
RECURSIVE TowerMulRec(_, _, _)
RECURSIVE TowerJoinRec(_, _, _, _, _)
TowerJoinRec(k, h, z0, z1, z2) ==
    FAdd(z0, z1)
    + h * FAdd(FAdd(z2, FAdd(z0, z1)), TowerMulRec(k - 1, z1, Alpha(k - 1)))

TowerMulRec(k, a, b) ==
    IF a = 0 \/ b = 0 THEN 0
    ELSE IF k = 0 THEN 1
    ELSE LET h == Pow2(Pow2(k - 1))
         IN  TowerJoinRec(k, h,
                          TowerMulRec(k - 1, a % h, b % h),
                          TowerMulRec(k - 1, a \div h, b \div h),
                          TowerMulRec(k - 1, FAdd(a % h, a \div h), FAdd(b % h, b \div h)))

\* Multiplication in T_2, tabulated once
MulTab == [a \in 0 .. 15 |-> [b \in 0 .. 15 |-> TowerMulRec(2, a, b)]]

\* Multiplication in T_k for any k, through the table below T_2
RECURSIVE TowerMul(_, _, _)
RECURSIVE TowerJoin(_, _, _, _, _)
TowerJoin(k, h, z0, z1, z2) ==
    FAdd(z0, z1)
    + h * FAdd(FAdd(z2, FAdd(z0, z1)), TowerMul(k - 1, z1, Alpha(k - 1)))

TowerMul(k, a, b) ==
    IF a < 16 /\ b < 16 THEN MulTab[a][b]
    ELSE LET h == Pow2(Pow2(k - 1))
         IN  IF a < h /\ b < h THEN TowerMul(k - 1, a, b)
             ELSE TowerJoin(k, h,
                            TowerMul(k - 1, a % h, b % h),
                            TowerMul(k - 1, a \div h, b \div h),
                            TowerMul(k - 1, FAdd(a % h, a \div h), FAdd(b % h, b \div h)))

Max(a, b) == IF a > b THEN a ELSE b

\* Field multiplication, in the least tower level holding both factors
FMul(a, b) == TowerMul(Max(TowerLevel(a), TowerLevel(b)), a, b)

FSquare(a) == FMul(a, a)

\* a^(2^j), by j squarings
RECURSIVE FrobPow(_, _)
FrobPow(a, j) == IF j = 0 THEN a ELSE FSquare(FrobPow(a, j - 1))

\* The product of a^(2^i) for i = 1 .. j: a^(2^(j+1) - 2)
RECURSIVE FermatProd(_, _)
FermatProd(a, j) == IF j = 0 THEN 1 ELSE FMul(FermatProd(a, j - 1), FrobPow(a, j))

\* invert_or_zero: 0 -> 0, otherwise the inverse a^(|T_k| - 2) in the least
\* subfield T_k holding a
InvertOrZero(a) == IF a = 0 THEN 0 ELSE FermatProd(a, Pow2(TowerLevel(a)) - 1)

\* ExtensionField<BinaryField1b>::basis(i) and TowerField::basis(0, i): bit i
Basis(i) == Pow2(i)

----------------------------------------------------------------------------
(* PackedAlgebra32: 32 lanes of BinaryField128b acted on by BinaryField32b  *)

PACKED_LANES == 32

Zeros(n) == [i \in 1 .. n |-> 0]

\* packed_tower_add_<n>: lane-wise addition
packed_tower_add(lhs, rhs) == [i \in 1 .. Len(lhs) |-> FAdd(lhs[i], rhs[i])]

\* PackedMul2: two lanes times an element of BinaryField2b
PackedMul2(lhs, rhs) ==
    IF rhs = 0 THEN Zeros(2)
    ELSE IF rhs = 1 THEN lhs
    ELSE IF rhs = 2 THEN <<At(lhs, 1), FAdd(At(lhs, 0), At(lhs, 1))>>
    ELSE <<FAdd(At(lhs, 0), At(lhs, 1)), At(lhs, 0)>>

\* PackedMulAlpha2 that only swaps the two lanes
PackedMulAlpha2Swap(lhs) == <<At(lhs, 1), At(lhs, 0)>>

PackedMulAlpha2(lhs) == <<At(lhs, 1), FAdd(At(lhs, 0), At(lhs, 1))>>

\* PackedMulAlpha<level>, level = 4, 8, 16, 32 (and PackedMulAlpha2 below
\* them): concat(a1, a0 + alpha * a1) over the halves (a0, a1) of lhs
RECURSIVE PackedMulAlpha(_, _)
PackedMulAlpha(level, lhs) ==
    IF level = 2 THEN PackedMulAlpha2(lhs)
    ELSE SubSeq(lhs, level \div 2 + 1, level)
         \o packed_tower_add(SubSeq(lhs, 1, level \div 2),
                             PackedMulAlpha(level \div 2,
                                            SubSeq(lhs, level \div 2 + 1, level)))

\* The tail of PackedMul<level>: z3 + t1 + t2 placed after t1
PackedMulJoin(t1, t2, z3) == t1 \o packed_tower_add(packed_tower_add(z3, t1), t2)

\* PackedMul<level>: level lanes times an element of BinaryField<level>b,
\* level = 4, 8, 16, 32 (and PackedMul2 below them)
RECURSIVE PackedMul(_, _, _)
RECURSIVE PackedMulProducts(_, _, _, _)
PackedMulProducts(next, z0, z1, z3) ==
    PackedMulJoin(packed_tower_add(z0, z1), PackedMulAlpha(next, z1), z3)

RECURSIVE PackedMulHalves(_, _, _, _, _)
PackedMulHalves(next, a_0, a_1, b_0, b_1) ==
    PackedMulProducts(next,
                      PackedMul(next, a_0, b_0),
                      PackedMul(next, a_1, b_1),
                      PackedMul(next, packed_tower_add(a_0, a_1), FAdd(b_0, b_1)))

PackedMul(level, lhs, rhs) ==
    IF level = 2 THEN PackedMul2(lhs, rhs)
    ELSE PackedMulHalves(level \div 2,
                         SubSeq(lhs, 1, level \div 2),
                         SubSeq(lhs, level \div 2 + 1, level),
                         rhs % Pow2(level \div 2),
                         rhs \div Pow2(level \div 2))

\* impl Mul<BinaryField32b> for PackedAlgebra32
PackedMul32(lhs, rhs) == PackedMul(PACKED_LANES, lhs, rhs)

\* PackedAlgebra32::pack: chunks of 32; a short last chunk makes try_from fail
PackPanics(vec) == Len(vec) % PACKED_LANES /= 0

Pack(vec) == [c \in 1 .. (Len(vec) \div PACKED_LANES) |->
                SubSeq(vec, (c - 1) * PACKED_LANES + 1, c * PACKED_LANES)]

\* PackedAlgebra32::unpack: the lanes of every packed element, in order
Unpack(vec) == [i \in 1 .. (Len(vec) * PACKED_LANES) |->
                  vec[((i - 1) \div PACKED_LANES) + 1][((i - 1) % PACKED_LANES) + 1]]

\* The coefficient types the transform is instantiated at
CoefTypes == {"F32", "P32"}

\* F * BinaryField32b and F += F for F = BinaryField32b and F = PackedAlgebra32
CoefMul(ty, x, t) == IF ty = "F32" THEN FMul(x, t) ELSE PackedMul32(x, t)

CoefAdd(ty, x, y) == IF ty = "F32" THEN FAdd(x, y) ELSE packed_tower_add(x, y)

----------------------------------------------------------------------------
(* Additive NTT                                                            *)

\* vanishing_map: the product of (val + i) over i < 2^size, and ONE for size 0
RECURSIVE VanishingProd(_, _)
VanishingProd(val, m) ==
    IF m = 0 THEN 1 ELSE FMul(VanishingProd(val, m - 1), FAdd(val, m - 1))

vanishing_map(val, size) == IF size /= 0 THEN VanishingProd(val, Pow2(size)) ELSE 1

subspace_map(elem, constant) == FAdd(FSquare(elem), FMul(constant, elem))

Last(s) == s[Len(s)]

\* One pass of the loop of precompute_subspace_evals over the pair
\* (normalization_consts, s_evals)
SubspaceEvalsStep(norms, evals) ==
    [norms |-> Append(norms, subspace_map(At(Last(evals), 0), Last(norms))),
     evals |-> Append(evals, [j \in 1 .. (Len(Last(evals)) - 1) |->
                                 subspace_map(Last(evals)[j + 1], Last(norms))])]

SubspaceEvalsNext(prev) == SubspaceEvalsStep(prev.norms, prev.evals)

\* (normalization_consts, s_evals) after `iter` passes
RECURSIVE SubspaceEvalsLoop(_, _)
SubspaceEvalsLoop(log_domain_size, iter) ==
    IF iter = 0
    THEN [norms |-> <<1>>,
          evals |-> << [i \in 1 .. (IF log_domain_size = 0 THEN 0 ELSE log_domain_size - 1)
                          |-> Basis(i)] >>]
    ELSE SubspaceEvalsNext(SubspaceEvalsLoop(log_domain_size, iter - 1))

\* The closing loop: every s_evals[k] scaled by the inverse of its constant
SubspaceEvalsNormalise(norms, evals) ==
    [k \in 1 .. Len(evals) |->
        [j \in 1 .. Len(evals[k]) |-> FMul(evals[k][j], InvertOrZero(norms[k]))]]

SubspaceEvalsDone(done) == SubspaceEvalsNormalise(done.norms, done.evals)

precompute_subspace_evals(log_domain_size) ==
    SubspaceEvalsDone(
        SubspaceEvalsLoop(log_domain_size,
                          IF log_domain_size = 0 THEN 0 ELSE log_domain_size - 1))

\* One doubling of compute_twiddles' inner loop: every entry so far, plus eval
ExpandStep(expanded, eval_) ==
    expanded \o [i \in 1 .. Len(expanded) |-> FAdd(expanded[i], eval_)]

\* The expansion that adds the first generator in every doubling
RECURSIVE ExpandFirstEval(_, _)
ExpandFirstEval(s_evals_i, upto) ==
    IF upto = 0 THEN <<0>>
    ELSE ExpandStep(ExpandFirstEval(s_evals_i, upto - 1), s_evals_i[1])

\* The expansion of one row of generators into its table of subset sums
RECURSIVE Expand(_, _)
Expand(s_evals_i, upto) ==
    IF upto = 0 THEN <<0>>
    ELSE ExpandStep(Expand(s_evals_i, upto - 1), s_evals_i[upto])

ExpandAll(s_evals) == [k \in 1 .. Len(s_evals) |-> Expand(s_evals[k], Len(s_evals[k]))]

compute_twiddles(log_transform_size) ==
    ExpandAll(precompute_subspace_evals(log_transform_size))

\* AdditiveNTT::new
AdditiveNTT(log_transform_size) ==
    [log_transform_size |-> log_transform_size,
     twiddles |-> compute_twiddles(log_transform_size)]

\* The twiddle of block b in round r without the coset's share
RoundTwiddleNoCoset(ntt_, r, b, coset) == At(At(ntt_.twiddles, r), b)

\* The twiddle of block b in round r with the coset's share added:
\* twiddles[r][b] + vanishing_map(coset, r) * vanishing_map(basis(r), r)^-1
RoundTwiddle(ntt_, r, b, coset) ==
    FAdd(At(At(ntt_.twiddles, r), b),
         FMul(vanishing_map(coset, r), InvertOrZero(vanishing_map(Basis(r), r))))

\* The two stores of a forward butterfly, given the new left value
ForwardStore(ty, coeffs, left_idx, right_idx, new_left) ==
    [coeffs EXCEPT ![left_idx + 1] = new_left,
                   ![right_idx + 1] = CoefAdd(ty, @, new_left)]

\* One forward butterfly: left += right * tw, then right += left
ForwardButterfly(ty, coeffs, left_idx, right_idx, tw) ==
    ForwardStore(ty, coeffs, left_idx, right_idx,
                 CoefAdd(ty, At(coeffs, left_idx), CoefMul(ty, At(coeffs, right_idx), tw)))

\* The two stores of an inverse butterfly, given the new right value
InverseStore(ty, coeffs, left_idx, right_idx, new_right, tw) ==
    [coeffs EXCEPT ![right_idx + 1] = new_right,
                   ![left_idx + 1] = CoefAdd(ty, @, CoefMul(ty, new_right, tw))]

\* An inverse butterfly in the order of the forward one
InverseButterflyForwardOrder(ty, coeffs, left_idx, right_idx, tw) ==
    ForwardStore(ty, coeffs, left_idx, right_idx,
                 CoefAdd(ty, At(coeffs, left_idx), CoefMul(ty, At(coeffs, right_idx), tw)))

\* One inverse butterfly: right += left, then left += right * tw
InverseButterfly(ty, coeffs, left_idx, right_idx, tw) ==
    InverseStore(ty, coeffs, left_idx, right_idx,
                 CoefAdd(ty, At(coeffs, right_idx), At(coeffs, left_idx)), tw)

Butterfly(ty, fwd, coeffs, left_idx, right_idx, tw) ==
    IF fwd THEN ForwardButterfly(ty, coeffs, left_idx, right_idx, tw)
    ELSE InverseButterfly(ty, coeffs, left_idx, right_idx, tw)

\* Round r on the pair (b << (r+1)) + p and its partner 2^r further
RoundStep(ty, fwd, ntt_, coeffs, coset, r, p, b) ==
    Butterfly(ty, fwd, coeffs, b * Pow2(r + 1) + p, b * Pow2(r + 1) + p + Pow2(r),
              RoundTwiddle(ntt_, r, b, coset))

\* Round r: for p in 0..parts, for b in 0..2^(rounds-1-r); the first `done`
\* pairs (p, b) of that double loop, in its order
RECURSIVE NttRound(_, _, _, _, _, _, _, _)
NttRound(ty, fwd, ntt_, coeffs, coset, rounds, r, done) ==
    IF done = 0 THEN coeffs
    ELSE RoundStep(ty, fwd, ntt_,
                   NttRound(ty, fwd, ntt_, coeffs, coset, rounds, r, done - 1),
                   coset, r,
                   (done - 1) \div Pow2(rounds - 1 - r),
                   (done - 1) % Pow2(rounds - 1 - r))

FullRound(ty, fwd, ntt_, coeffs, coset, rounds, r) ==
    NttRound(ty, fwd, ntt_, coeffs, coset, rounds, r, Pow2(r) * Pow2(rounds - 1 - r))

\* coeffs.len().trailing_zeros(): the width of usize for an empty vector
Rounds(coeffs) == IF Len(coeffs) = 0 THEN 64 ELSE TrailingZeros(Len(coeffs))

\* The rounds of a transform: r = rounds-1 down to 0 forward (`n` rounds
\* remain), r = 0 up to rounds-1 inverse (the first `n` rounds are done)
RECURSIVE NttRounds(_, _, _, _, _, _, _)
NttRounds(ty, fwd, ntt_, coeffs, coset, rounds, n) ==
    IF n = 0 THEN coeffs
    ELSE IF fwd
         THEN NttRounds(ty, fwd, ntt_,
                        FullRound(ty, fwd, ntt_, coeffs, coset, rounds, n - 1),
                        coset, rounds, n - 1)
         ELSE FullRound(ty, fwd, ntt_,
                        NttRounds(ty, fwd, ntt_, coeffs, coset, rounds, n - 1),
                        coset, rounds, n - 1)

forward_ntt(ty, ntt_, coeffs, coset) ==
    NttRounds(ty, TRUE, ntt_, coeffs, coset, Rounds(coeffs), Rounds(coeffs))

inverse_ntt(ty, ntt_, coeffs, coset) ==
    NttRounds(ty, FALSE, ntt_, coeffs, coset, Rounds(coeffs), Rounds(coeffs))

\* poly_eval's basis_vals[k]: vanishing_map(point, k) over
\* vanishing_map(2^k, k), and the point itself for k = 0
BasisVal(point_, k) ==
    IF k = 0 THEN point_
    ELSE FMul(vanishing_map(point_, k), InvertOrZero(vanishing_map(Pow2(k), k)))

\* poly_eval's basis_eval for coefficient i: the product of basis_vals[j]
\* over the set bits j < upto of i
RECURSIVE BasisEval(_, _, _)
BasisEval(point_, i, upto) ==
    IF upto = 0 THEN 1
    ELSE IF Bit(i, upto - 1) = 1
         THEN FMul(BasisEval(point_, i, upto - 1), BasisVal(point_, upto - 1))
         ELSE BasisEval(point_, i, upto - 1)

\* poly_eval's sum over the first `upto` coefficients
RECURSIVE PolyEvalSum(_, _, _, _)
PolyEvalSum(coeffs, point_, bits, upto) ==
    IF upto = 0 THEN 0
    ELSE FAdd(PolyEvalSum(coeffs, point_, bits, upto - 1),
              FMul(BasisEval(point_, upto - 1, bits), At(coeffs, upto - 1)))

\* poly_eval: the naive evaluation of the polynomial with these coefficients
poly_eval(coeffs, point_) ==
    PolyEvalSum(coeffs, point_, TrailingZeros(Len(coeffs)) + 1, Len(coeffs))

\* A transform reads twiddles[r][b] for r < rounds, b < 2^(rounds-1-r): out of
\* bounds when the table is smaller than the vector asks for. On an empty
\* vector it runs 64 rounds and fails in the first.
NttPanics(ntt_, coeffs) ==
    \/ Len(coeffs) = 0
    \/ \E r \in Range0(Rounds(coeffs)) :
          \/ r >= Len(ntt_.twiddles)
          \/ Pow2(Rounds(coeffs) - 1 - r) > Len(At(ntt_.twiddles, r))

\* The rounds in which a transform of 2^rounds entries reads past the table
PanicRounds(ntt_, rounds) ==
    { r \in Range0(rounds) :
        \/ r >= Len(ntt_.twiddles)
        \/ Pow2(rounds - 1 - r) > Len(At(ntt_.twiddles, r)) }

\* The round a panicking transform stops in: the first of them in its order,
\* the highest forward and the lowest inverse
PanicRound(fwd, ntt_, rounds) ==
    CHOOSE r \in PanicRounds(ntt_, rounds) :
        \A s \in PanicRounds(ntt_, rounds) : IF fwd THEN s <= r ELSE r <= s

\* The block b it stops at, with p = 0: the butterflies of the blocks before
\* b are stored
PanicBlock(ntt_, r) ==
    IF r >= Len(ntt_.twiddles) THEN 0 ELSE Len(At(ntt_.twiddles, r))

\* The forward rounds rounds-1 down to r+1
RECURSIVE ForwardRoundsAbove(_, _, _, _, _, _)
ForwardRoundsAbove(ty, ntt_, coeffs, coset, rounds, r) ==
    IF r + 1 >= rounds THEN coeffs
    ELSE FullRound(ty, TRUE, ntt_,
                   ForwardRoundsAbove(ty, ntt_, coeffs, coset, rounds, r + 1),
                   coset, rounds, r + 1)

\* forward_ntt reads twiddles[r][b] before its first store of the butterfly
ForwardPanicked(ty, ntt_, coeffs, coset, rounds, r) ==
    NttRound(ty, TRUE, ntt_, ForwardRoundsAbove(ty, ntt_, coeffs, coset, rounds, r),
             coset, rounds, r, PanicBlock(ntt_, r))

\* inverse_ntt reads twiddles[r][b] after coeffs[right_idx] += left_val
InverseHalfStore(ty, coeffs, left_idx, right_idx) ==
    [coeffs EXCEPT ![right_idx + 1] = CoefAdd(ty, @, At(coeffs, left_idx))]

InversePanicked(ty, ntt_, coeffs, coset, rounds, r) ==
    InverseHalfStore(ty,
                     NttRound(ty, FALSE, ntt_,
                              NttRounds(ty, FALSE, ntt_, coeffs, coset, rounds, r),
                              coset, rounds, r, PanicBlock(ntt_, r)),
                     PanicBlock(ntt_, r) * Pow2(r + 1),
                     PanicBlock(ntt_, r) * Pow2(r + 1) + Pow2(r))

\* The vector a panicking transform leaves with its caller: the transform
\* works in place, so every store before the panic stays
NttPanicked(ty, fwd, ntt_, coeffs, coset) ==
    IF Len(coeffs) = 0 THEN coeffs
    ELSE IF fwd
         THEN ForwardPanicked(ty, ntt_, coeffs, coset, Rounds(coeffs),
                              PanicRound(TRUE, ntt_, Rounds(coeffs)))
         ELSE InversePanicked(ty, ntt_, coeffs, coset, Rounds(coeffs),
                              PanicRound(FALSE, ntt_, Rounds(coeffs)))

----------------------------------------------------------------------------
(* Merkle commitment                                                       *)

\* Keccak256 as a collision-free hash: the digest of a byte string is the
\* term naming that string. A byte string is a sequence of bytes, and a
\* digest inside one stands for the 32 bytes of that digest.
Keccak256(bytes) == [keccak |-> bytes]

\* A digest is 32 bytes: 8 words of a u32
WORDS_PER_DIGEST == 8

----------------------------------------------------------------------------
(* The bytes of a digest: Keccak-256 (Keccak-f[1600], rate 136 bytes, pad   *)
(* 0x01 .. 0x80), the state kept as the set of the positions of its one    *)
(* bits. A digest is compared as a term; its bytes are computed where the  *)
(* program reads them as numbers.                                          *)

\* The rotation offsets of rho, for lane x + 5y
RhoOffsets == << 0, 1, 62, 28, 27, 36, 44, 6, 55, 20, 3, 10, 43, 25, 39,
                 41, 45, 15, 21, 8, 18, 2, 61, 56, 14 >>

\* The round constants of iota, as the bits of lane 0 they flip
RoundConstants ==
   << { 0 },
      { 1, 7, 15 },
      { 1, 3, 7, 15, 63 },
      { 15, 31, 63 },
      { 0, 1, 3, 7, 15 },
      { 0, 31 },
      { 0, 7, 15, 31, 63 },
      { 0, 3, 15, 63 },
      { 1, 3, 7 },
      { 3, 7 },
      { 0, 3, 15, 31 },
      { 1, 3, 31 },
      { 0, 1, 3, 7, 15, 31 },
      { 0, 1, 3, 7, 63 },
      { 0, 3, 7, 15, 63 },
      { 0, 1, 15, 63 },
      { 1, 15, 63 },
      { 7, 63 },
      { 1, 3, 15 },
      { 1, 3, 31, 63 },
      { 0, 7, 15, 31, 63 },
      { 7, 15, 63 },
      { 0, 31 },
      { 3, 15, 31, 63 } >>

\* Bit z of lane x + 5y of the 1600-bit state is position 64 * (x + 5y) + z
LanePos(x, y, z) == 64 * ((x % 5) + 5 * y) + (z % 64)

\* XOR of two sets of bit positions
SymDiff(a, b) == { p \in a : p \notin b } \cup { p \in b : p \notin a }

\* Plane y of the state, moved to plane 0
Plane(st, y) == { p - 320 * y : p \in { q \in st : q \div 320 = y } }

\* theta: the parities of the columns, as a plane
ColumnParity(st) ==
    SymDiff(SymDiff(SymDiff(Plane(st, 0), Plane(st, 1)),
                    SymDiff(Plane(st, 2), Plane(st, 3))), Plane(st, 4))

\* theta: column (x, z) takes the parities of columns (x-1, z) and (x+1, z-1)
ThetaEffect(par) ==
    SymDiff({ LanePos((c \div 64) + 1, 0, c % 64) : c \in par },
            { LanePos((c \div 64) + 4, 0, (c % 64) + 1) : c \in par })

Theta(st, eff) == SymDiff(st, { d + 320 * y : d \in eff, y \in 0 .. 4 })

\* rho and pi: lane (x, y) rotated by its offset goes to lane (y, 2x + 3y)
RhoPi(st) ==
    { LanePos((p \div 64) \div 5, (2 * ((p \div 64) % 5) + 3 * ((p \div 64) \div 5)) % 5,
              (p % 64) + RhoOffsets[(p \div 64) + 1]) : p \in st }

\* The state with every lane (x, y) moved to (x - by, y)
RowShift(st, by) == { LanePos(((p \div 64) % 5) + 5 - by, (p \div 64) \div 5, p % 64) : p \in st }

\* chi: a ^= ~b & c along each row
ChiWith(st, b, c) == SymDiff(st, { p \in c : p \notin b })

Chi(st) == ChiWith(st, RowShift(st, 1), RowShift(st, 2))

\* iota: lane 0 ^= RC[round]
Iota(st, rc) == SymDiff(st, rc)

KeccakRound(st, round) ==
    Iota(Chi(RhoPi(Theta(st, ThetaEffect(ColumnParity(st))))), RoundConstants[round])

\* Keccak-f[1600]: the rounds from `round` to the last. The state of every
\* round is computed before the next round starts on it.
RECURSIVE KeccakF(_, _)
KeccakF(st, round) ==
    IF round > Len(RoundConstants) \/ ~(st \subseteq 0 .. 1599) THEN st
    ELSE KeccakF(KeccakRound(st, round), round + 1)

\* The bits of the padded message: byte k bit j at position 8k + j, then the
\* pad 0x01 .. 0x80 up to a multiple of the rate
\* The length of the padded message: the next multiple of the rate, 136 bytes
PaddedLen(len) == ((len \div 136) + 1) * 136

PaddedBits(bytes) ==
    { q \in 0 .. (8 * Len(bytes) - 1) : (bytes[(q \div 8) + 1] \div (2 ^ (q % 8))) % 2 = 1 }
        \cup { 8 * Len(bytes), 8 * PaddedLen(Len(bytes)) - 1 }

\* The state after absorbing the first `blocks` blocks of the padded message
RECURSIVE Absorb(_, _)
Absorb(bits, blocks) ==
    IF blocks = 0 THEN { }
    ELSE KeccakF(Iota(Absorb(bits, blocks - 1),
                      { q - 1088 * (blocks - 1) :
                          q \in { b \in bits : b \div 1088 = blocks - 1 } }),
                 1)

\* The first 32 bytes of the state
Squeeze(st) ==
    [k \in 1 .. 32 |->
        (IF 8 * (k - 1) \in st THEN 1 ELSE 0) + (IF 8 * (k - 1) + 1 \in st THEN 2 ELSE 0)
        + (IF 8 * (k - 1) + 2 \in st THEN 4 ELSE 0) + (IF 8 * (k - 1) + 3 \in st THEN 8 ELSE 0)
        + (IF 8 * (k - 1) + 4 \in st THEN 16 ELSE 0) + (IF 8 * (k - 1) + 5 \in st THEN 32 ELSE 0)
        + (IF 8 * (k - 1) + 6 \in st THEN 64 ELSE 0) + (IF 8 * (k - 1) + 7 \in st THEN 128 ELSE 0)]

\* The 32 bytes Keccak256 returns for a string of bytes
KeccakBytes(bytes) ==
    Squeeze(Absorb(PaddedBits(bytes), PaddedLen(Len(bytes)) \div 136))

----------------------------------------------------------------------------
(* Words and byte strings that hold digests                                *)

\* A u32 may hold four bytes of a digest: DigestWord(d, w, b) is the u32 whose
\* little-endian bytes are bytes 4w .. 4w+3 of the digest d, and b are those
\* four bytes. Every other u32 is the number itself.
DigestWord(digest, word, bytes) == [digest |-> digest, word |-> word, bytes |-> bytes]

IsDigestWord(x) == SubSeq(ToString(x), 1, 1) = "["

\* (val() >> bit) & 1 of a BinaryField32b
WordBit(x, bit) ==
    IF IsDigestWord(x) THEN Bit(x.bytes[(bit \div 8) + 1], bit % 8) ELSE Bit(x, bit)

\* The bytes a byte string stands for: a byte is itself, a digest is its 32
\* bytes, four bytes of a digest are those four
RECURSIVE ItemBytes(_)
RECURSIVE DigestBytes(_)
RECURSIVE RealBytes(_, _)
RealBytes(items, upto) ==
    IF upto = 0 THEN << >> ELSE RealBytes(items, upto - 1) \o ItemBytes(items[upto])

ItemBytes(x) ==
    IF ~IsDigestWord(x) THEN << x >>
    ELSE IF "keccak" \in DOMAIN x THEN DigestBytes(x)
    ELSE SubSeq(DigestBytes(x.digest), 4 * x.word + 1, 4 * x.word + 4)

\* The 32 bytes of the digest d
DigestBytes(d) == KeccakBytes(RealBytes(d.keccak, Len(d.keccak)))

\* The four bytes of a word of a digest, as one item of a byte string
DigestQuad(x) == [digest |-> x.digest, word |-> x.word]

\* u32::to_le_bytes
ToLeBytes(v) ==
    IF IsDigestWord(v) THEN << DigestQuad(v) >>
    ELSE << v % 256, (v \div 256) % 256, (v \div 65536) % 256, v \div 16777216 >>

RECURSIVE FieldBytes(_, _)
FieldBytes(data, upto) ==
    IF upto = 0 THEN << >> ELSE FieldBytes(data, upto - 1) \o ToLeBytes(data[upto])

\* The items from `from` on are the eight words of one digest, in order
WholeDigestAt(bytes, from) ==
    /\ from + WORDS_PER_DIGEST - 1 <= Len(bytes)
    /\ \A w \in Range0(WORDS_PER_DIGEST) :
          /\ IsDigestWord(bytes[from + w])
          /\ bytes[from + w].word = w
          /\ bytes[from + w].digest = bytes[from].digest

\* The byte string with every digest spelled out word by word written as
\* the digest itself
RECURSIVE JoinDigests(_, _)
JoinDigests(bytes, from) ==
    IF from > Len(bytes) THEN << >>
    ELSE IF WholeDigestAt(bytes, from)
         THEN << bytes[from].digest >> \o JoinDigests(bytes, from + WORDS_PER_DIGEST)
         ELSE << bytes[from] >> \o JoinDigests(bytes, from + 1)

\* hash_field: Keccak256 over the little-endian words of a column
hash_field(data) == Keccak256(JoinDigests(FieldBytes(data, Len(data)), 1))

\* hash_concatenation: Keccak256 over the two digests' bytes
hash_concatenation(data1, data2) == Keccak256(<<data1, data2>>)

\* merklize asserting only that there are leaves
MerklizePanicsOnEmpty(leaf_hashes) == Len(leaf_hashes) = 0

MerklizePanics(leaf_hashes) == ~IsPowerOfTwo(Len(leaf_hashes))

\* merklize hashing each pair right before left
HashLayerSwapped(lower_layer) ==
    [i \in 1 .. (Len(lower_layer) \div 2) |->
        hash_concatenation(At(lower_layer, 2 * (i - 1) + 1),
                           At(lower_layer, 2 * (i - 1)))]

\* The layer above lower_layer: the hashes of its pairs (2i, 2i+1)
HashLayer(lower_layer) ==
    [i \in 1 .. (Len(lower_layer) \div 2) |->
        hash_concatenation(At(lower_layer, 2 * (i - 1)),
                           At(lower_layer, 2 * (i - 1) + 1))]

\* The layer merklize stores at key depth, hashed up from the leaves
RECURSIVE MerkleLayer(_, _, _)
MerkleLayer(leaf_hashes, tree_depth, depth) ==
    IF depth = tree_depth THEN leaf_hashes
    ELSE HashLayer(MerkleLayer(leaf_hashes, tree_depth, depth + 1))

\* merklize: the map depth -> layer, for a power-of-two number of leaves
merklize(leaf_hashes) ==
    [depth \in 0 .. TrailingZeros(Len(leaf_hashes)) |->
        MerkleLayer(leaf_hashes, TrailingZeros(Len(leaf_hashes)), depth)]

\* MerkleTree::get_root
get_root(tree) == At(tree[0], 0)

\* get_merkle_path taking the node on the way up in place of its sibling
SiblingIndexSelf(leaf_index, d) == Shr(leaf_index, d)

\* The sibling index get_merkle_path computes at step d
SiblingIndex(leaf_index, d) ==
    IF Bit(leaf_index, d) = 0 THEN Shr(leaf_index, d) + 1 ELSE Shr(leaf_index, d) - 1

\* tree.len(): the number of layers
TreeLen(tree) == Cardinality(DOMAIN tree)

\* get_merkle_path panics on the empty map (tree_depth - 1 underflows), on a
\* map without the layer tree_depth-i-1 (the None arm), and when indices[i] is
\* out of the bounds of that layer, as for a leaf index beyond the leaves
GetMerklePathPanics(tree, leaf_index) ==
    \/ TreeLen(tree) = 0
    \/ \E i \in Range0(TreeLen(tree) - 1) :
          \/ (TreeLen(tree) - i - 1) \notin DOMAIN tree
          \/ SiblingIndex(leaf_index, i) >= Len(tree[TreeLen(tree) - i - 1])

get_merkle_path(tree, leaf_index) ==
    [i \in 1 .. (TreeLen(tree) - 1) |->
        At(tree[TreeLen(tree) - (i - 1) - 1], SiblingIndex(leaf_index, i - 1))]

\* One pass of verify_merkle_path's loop, at depth d
PathStep(hash, leaf_index, merkle_path, d) ==
    IF Bit(leaf_index, d) = 0
    THEN hash_concatenation(hash, At(merkle_path, d))
    ELSE hash_concatenation(At(merkle_path, d), hash)

\* The accumulator of verify_merkle_path after the first `upto` path entries
RECURSIVE PathHash(_, _, _, _)
PathHash(leaf_hash, leaf_index, merkle_path, upto) ==
    IF upto = 0 THEN leaf_hash
    ELSE PathStep(PathHash(leaf_hash, leaf_index, merkle_path, upto - 1),
                  leaf_index, merkle_path, upto - 1)

\* verify_merkle_path without its assert_eq
VerifyMerklePathUnchecked(commitment_, leaf_hash, leaf_index, merkle_path) == TRUE

\* verify_merkle_path: TRUE when its assert_eq passes
verify_merkle_path(commitment_, leaf_hash, leaf_index, merkle_path) ==
    PathHash(leaf_hash, leaf_index, merkle_path, Len(merkle_path)) = commitment_

----------------------------------------------------------------------------
(* Reed-Solomon encoder                                                    *)

RATE == 4
PACKING_DEGREE == 5

\* The RATE-1 appended blocks of encode / encode_extension: block i is the
\* forward transform of `inverse` on coset i * message_len
RECURSIVE EncodeBlocks(_, _, _, _, _)
EncodeBlocks(ty, ntt_, inverse, message_len, upto) ==
    IF upto = 0 THEN << >>
    ELSE EncodeBlocks(ty, ntt_, inverse, message_len, upto - 1)
         \o forward_ntt(ty, ntt_, inverse, upto * message_len)

\* The body shared by encode and encode_extension: the message followed by
\* the RATE-1 blocks of its inverse transform on coset 0
EncodeWith(ty, ntt_, message, message_len) ==
    message \o EncodeBlocks(ty, ntt_, inverse_ntt(ty, ntt_, message, 0),
                            message_len, RATE - 1)

\* encode
encode(message, ntt_) == EncodeWith("F32", ntt_, message, Len(message))

\* encode_extension: the same over the packed message; the cosets are
\* multiples of the length of the unpacked message
encode_extension(message, ntt_) == EncodeWith("P32", ntt_, Pack(message), Len(message))

\* make_coeff_matrix: poly.chunks(cols), the last chunk possibly short
make_coeff_matrix(poly_, cols) ==
    [row \in 1 .. ((Len(poly_) + cols - 1) \div cols) |->
        SubSeq(poly_, (row - 1) * cols + 1,
               IF row * cols < Len(poly_) THEN row * cols ELSE Len(poly_))]

encode_interleaved(poly_, ntt_, rows, cols) ==
    [row \in 1 .. rows |-> encode(poly_[row], ntt_)]

\* The log_cols Code::new chooses for a poly of 2^variables entries
LogCols(variables) ==
    IF variables < Pow2(PACKING_DEGREE) + PACKING_DEGREE - TrailingZeros(RATE)
    THEN (variables + 1) \div 2
    ELSE Pow2(PACKING_DEGREE) + PACKING_DEGREE - TrailingZeros(RATE)

\* The Code of the given shape
CodeOfShape(poly_, ntt_, rows, cols) ==
    [code |-> encode_interleaved(make_coeff_matrix(poly_, cols), ntt_, rows, cols),
     rows |-> rows,
     cols |-> cols]

\* Code::new, for a non-empty poly
CodeNew(poly_, ntt_) ==
    CodeOfShape(poly_, ntt_,
                Pow2(TrailingZeros(Len(poly_)) - LogCols(TrailingZeros(Len(poly_)))),
                Pow2(LogCols(TrailingZeros(Len(poly_)))))

\* Code::col fails its assert!(col < self.cols)
ColPanics(code, col) == ~(col < code.cols)

\* Code::col reads self.code[row][col] for every row < self.rows: out of
\* bounds where the Code has fewer rows than `rows` or a row has no entry col
ColIndexPanics(code, col) ==
    \E row \in 1 .. code.rows : row > Len(code.code) \/ col >= Len(code.code[row])

\* Code::col
Col(code, col) == [row \in 1 .. code.rows |-> At(code.code[row], col)]

\* The sum of scalars[row] over the first `upto` rows whose value has `bit` set
RECURSIVE BitSum(_, _, _, _)
BitSum(vals, scalars, bit, upto) ==
    IF upto = 0 THEN 0
    ELSE IF WordBit(vals[upto], bit) = 1
         THEN FAdd(BitSum(vals, scalars, bit, upto - 1), scalars[upto])
         ELSE BitSum(vals, scalars, bit, upto - 1)

\* make_linear_combination reads poly[row][col] for every col < poly[0].len():
\* out of bounds in a row shorter than the first, as the last chunk of a poly
\* whose length is no multiple of cols
ShortRow(poly_) == \E row \in 1 .. Len(poly_) : Len(poly_[row]) < Len(poly_[1])

\* make_linear_combination fails its assert_eq, the read of poly[0] or an
\* index into a row
MakeLinearCombinationPanics(poly_, scalars) ==
    Len(poly_) /= Len(scalars) \/ Len(poly_) = 0 \/ ShortRow(poly_)

\* Column col of the coefficient matrix
MatrixCol(poly_, col) == [row \in 1 .. Len(poly_) |-> At(poly_[row], col)]

\* The result laid out bit-major: entry bit * cols + col instead of col * 32 + bit
MakeLinearCombinationBitMajor(poly_, scalars) ==
    [k \in 1 .. (Len(poly_[1]) * 32) |->
        BitSum(MatrixCol(poly_, (k - 1) % Len(poly_[1])), scalars,
               (k - 1) \div Len(poly_[1]), Len(poly_))]

\* make_linear_combination (the free function prove calls)
make_linear_combination(poly_, scalars) ==
    [k \in 1 .. (Len(poly_[1]) * 32) |->
        BitSum(MatrixCol(poly_, (k - 1) \div 32), scalars, (k - 1) % 32, Len(poly_))]

\* compute_fourier_bases reads r[0]
FourierBasesPanics(r) == Len(r) = 0

\* The doubling with the two halves exchanged: new[2i] = old[i] * r[k]
FourierStepSwapped(temp, rk) ==
    [j \in 1 .. (2 * Len(temp)) |->
        IF (j - 1) % 2 = 0
        THEN FMul(At(temp, (j - 1) \div 2), rk)
        ELSE FAdd(At(temp, (j - 1) \div 2), FMul(At(temp, (j - 1) \div 2), rk))]

\* One doubling of the table: new[2i+1] = old[i] * r[k], new[2i] = old[i] - new[2i+1]
FourierStep(temp, rk) ==
    [j \in 1 .. (2 * Len(temp)) |->
        IF (j - 1) % 2 = 1
        THEN FMul(At(temp, (j - 1) \div 2), rk)
        ELSE FAdd(At(temp, (j - 1) \div 2), FMul(At(temp, (j - 1) \div 2), rk))]

\* compute_fourier_bases after the coordinates r[0 .. k]
RECURSIVE FourierTable(_, _)
FourierTable(r, k) ==
    IF k = 0 THEN << FAdd(1, At(r, 0)), At(r, 0) >>
    ELSE FourierStep(FourierTable(r, k - 1), At(r, k))

compute_fourier_bases(r) == FourierTable(r, Len(r) - 1)

----------------------------------------------------------------------------
(* Prover and verifier                                                     *)

\* The inner loop of evaluate_unpacked: basis_chunk[i] summed over the set
\* bits i < upto of packed_coeff
RECURSIVE ChunkSum(_, _, _)
ChunkSum(packed_coeff, basis_chunk, upto) ==
    IF upto = 0 THEN 0
    ELSE IF Bit(packed_coeff, upto - 1) = 1
         THEN FAdd(ChunkSum(packed_coeff, basis_chunk, upto - 1),
                   At(basis_chunk, upto - 1))
         ELSE ChunkSum(packed_coeff, basis_chunk, upto - 1)

\* evaluate_unpacked: the chunk sums of the zipped (basis chunk, coefficient)
\* pairs, added up
RECURSIVE EvaluateChunks(_, _, _)
EvaluateChunks(poly_, basis, upto) ==
    IF upto = 0 THEN 0
    ELSE FAdd(EvaluateChunks(poly_, basis, upto - 1),
              ChunkSum(poly_[upto], SubSeq(basis, (upto - 1) * 32 + 1, upto * 32), 32))

EvaluateUnpackedPanics(poly_, basis) == Len(poly_) * 32 /= Len(basis)

evaluate_unpacked(poly_, basis) == EvaluateChunks(poly_, basis, Len(poly_))

Min(a, b) == IF a < b THEN a ELSE b

\* linear_combination: the sum of scalars[k] * vals[k] over the zipped pairs.
\* LinearSum adds the n products from index lo on; field addition is
\* associative and commutative, so the sum is taken by halves.
RECURSIVE LinearSum(_, _, _, _)
LinearSum(scalars, vals, lo, n) ==
    IF n = 0 THEN 0
    ELSE IF n = 1 THEN FMul(At(scalars, lo), At(vals, lo))
    ELSE FAdd(LinearSum(scalars, vals, lo, n \div 2),
              LinearSum(scalars, vals, lo + n \div 2, n - n \div 2))

linear_combination(scalars, vals) ==
    LinearSum(scalars, vals, 0, Min(Len(vals), Len(scalars)))

\* unpacked_linear_combination reads vals[k] for every k < scalars.len()
UnpackedLinearCombinationPanics(scalars, vals) == Len(vals) < Len(scalars)

\* unpacked_linear_combination without the scalars: every set bit adds ONE
UnpackedLinearCombinationUnscaled(scalars, vals) ==
    [lane \in 1 .. 32 |-> BitSum(vals, [k \in 1 .. Len(scalars) |-> 1], lane - 1, Len(scalars))]

unpacked_linear_combination(scalars, vals) ==
    [lane \in 1 .. 32 |-> BitSum(vals, scalars, lane - 1, Len(scalars))]

\* The hashes of columns 0 .. cols-1 of the Code
LeafHashes(encoded_poly_) ==
    [column \in 1 .. encoded_poly_.cols |-> hash_field(Col(encoded_poly_, column - 1))]

\* The triple commit returns, given the tree and the Code
CommitResult(merkle_tree_, encoded_poly_) ==
    [commitment |-> [commit |-> get_root(merkle_tree_),
                     cols |-> TrailingZeros(encoded_poly_.cols)],
     merkle_tree |-> merkle_tree_,
     encoded_poly |-> encoded_poly_]

CommitCode(encoded_poly_) == CommitResult(merklize(LeafHashes(encoded_poly_)), encoded_poly_)

\* commit
commit(poly_, ntt_) == CommitCode(CodeNew(poly_, ntt_))

\* The length of the head of the point: point.len() - (log_cols + 5)
HeadLen(point_, log_cols) == Len(point_) - (log_cols + 5)

PointHead(point_, log_cols) == SubSeq(point_, 1, HeadLen(point_, log_cols))

PointTail(point_, log_cols) == SubSeq(point_, HeadLen(point_, log_cols) + 1, Len(point_))

\* One pass of prove's loop: "ok", or the panic it ends in
ProveQuery(encoded_poly_, merkle_tree_, q) ==
    IF ColPanics(encoded_poly_, q) THEN "panic: col assert"
    ELSE IF ColIndexPanics(encoded_poly_, q) THEN "panic: col index"
    ELSE IF GetMerklePathPanics(merkle_tree_, q) THEN "panic: path index"
    ELSE "ok"

\* The first panic of the first `upto` passes of prove's loop; "ok" if none
RECURSIVE ProveQueries(_, _, _, _)
ProveQueries(encoded_poly_, merkle_tree_, queries_, upto) ==
    IF upto = 0 THEN "ok"
    ELSE IF ProveQueries(encoded_poly_, merkle_tree_, queries_, upto - 1) /= "ok"
         THEN ProveQueries(encoded_poly_, merkle_tree_, queries_, upto - 1)
         ELSE ProveQuery(encoded_poly_, merkle_tree_, queries_[upto])

\* How prove ends: "ok", or the first panic on its way
ProveOutcome(poly_, encoded_poly_, merkle_tree_, point_, queries_) ==
    IF Len(point_) < TrailingZeros(encoded_poly_.cols) + 5 THEN "panic: slice"
    ELSE IF FourierBasesPanics(PointHead(point_, TrailingZeros(encoded_poly_.cols)))
         THEN "panic: fourier index"
    ELSE IF Len(make_coeff_matrix(poly_, encoded_poly_.cols))
            /= Pow2(HeadLen(point_, TrailingZeros(encoded_poly_.cols)))
         THEN "panic: linear combination assert"
    ELSE IF ShortRow(make_coeff_matrix(poly_, encoded_poly_.cols))
         THEN "panic: coefficient index"
    ELSE ProveQueries(encoded_poly_, merkle_tree_, queries_, Len(queries_))

\* prove, when it does not panic
prove(poly_, encoded_poly_, merkle_tree_, point_, queries_) ==
    [folded_poly |->
        make_linear_combination(
            make_coeff_matrix(poly_, encoded_poly_.cols),
            compute_fourier_bases(PointHead(point_, TrailingZeros(encoded_poly_.cols)))),
     queried_columns |-> [i \in 1 .. Len(queries_) |-> Col(encoded_poly_, queries_[i])],
     merkle_paths |-> [i \in 1 .. Len(queries_) |->
                          get_merkle_path(merkle_tree_, queries_[i])]]

\* One pass of verify's query loop: "ok", or the panic it ends in
QueryOutcome(commit_, proof_, queries_, scalars, encoded, i) ==
    IF i >= Len(proof_.queried_columns) THEN "panic: column index"
    ELSE IF i >= Len(proof_.merkle_paths) THEN "panic: path index"
    ELSE IF ~verify_merkle_path(commit_.commit, hash_field(At(proof_.queried_columns, i)),
                                At(queries_, i), At(proof_.merkle_paths, i))
         THEN "panic: merkle assert"
    ELSE IF UnpackedLinearCombinationPanics(scalars, At(proof_.queried_columns, i))
         THEN "panic: value index"
    ELSE IF At(queries_, i) >= Len(encoded) THEN "panic: encoded index"
    ELSE IF At(encoded, At(queries_, i))
            /= unpacked_linear_combination(scalars, At(proof_.queried_columns, i))
         THEN "panic: query assert"
    ELSE "ok"

\* The first panic of the first `upto` passes of verify's loop; "ok" if none
RECURSIVE VerifyQueries(_, _, _, _, _, _)
VerifyQueries(commit_, proof_, queries_, scalars, encoded, upto) ==
    IF upto = 0 THEN "ok"
    ELSE IF VerifyQueries(commit_, proof_, queries_, scalars, encoded, upto - 1) /= "ok"
         THEN VerifyQueries(commit_, proof_, queries_, scalars, encoded, upto - 1)
         ELSE QueryOutcome(commit_, proof_, queries_, scalars, encoded, upto - 1)

\* verify without its closing assert
VerifyEvalUnchecked(looped, eval_, proof_, tail) == looped

\* The closing assert of verify, after the loop ended as `looped`
VerifyEval(looped, eval_, proof_, tail) ==
    IF looped /= "ok" THEN looped
    ELSE IF eval_ /= linear_combination(compute_fourier_bases(tail), proof_.folded_poly)
         THEN "panic: eval assert"
    ELSE "ok"

\* verify: "ok" when it returns, or the first panic on its way
verify(commit_, eval_, proof_, point_, queries_, ntt_) ==
    IF Len(point_) < commit_.cols + 5 THEN "panic: slice"
    ELSE IF FourierBasesPanics(PointHead(point_, commit_.cols)) THEN "panic: fourier index"
    ELSE IF PackPanics(proof_.folded_poly) THEN "panic: pack"
    ELSE IF NttPanics(ntt_, Pack(proof_.folded_poly)) THEN "panic: twiddle index"
    ELSE VerifyEval(VerifyQueries(commit_, proof_, queries_,
                                  compute_fourier_bases(PointHead(point_, commit_.cols)),
                                  encode_extension(proof_.folded_poly, ntt_),
                                  Len(queries_)),
                    eval_, proof_, PointTail(point_, commit_.cols))

----------------------------------------------------------------------------
(* M512: a 512-bit value, kept as the set of the positions of its one bits  *)
(* (bit 0 the least significant); a u128 limb likewise, within 0 .. 127    *)

\* u128 << s and u128 >> s, for s < 128
U128Shl(v, s) == { b + s : b \in { c \in v : c + s < 128 } }
U128Shr(v, s) == { b - s : b \in { c \in v : c >= s } }

\* u128 + u128 (wrapping): the carries are added in until none is left
RECURSIVE U128Add(_, _)
U128Add(a, b) ==
    IF b = { } THEN a
    ELSE U128Add((a \ b) \cup (b \ a), U128Shl(a \cap b, 1))

\* From<M512> for [u128; 4]: limb i holds the bits 128 i .. 128 i + 127
Limbs(x) == [i \in 0 .. 3 |-> { b - 128 * i : b \in { c \in x : c \div 128 = i } }]

\* From<[u128; 4]> for M512
FromLimbs(v) == UNION { { b + 128 * i : b \in v[i + 1] } : i \in 0 .. 3 }

\* The limbs after << rhs with the bits that cross a limb boundary dropped
ShlLimbsNoCarry(v, rhs) ==
    IF rhs >= 384 THEN << { }, { }, { }, U128Shl(v[0], rhs - 384) >>
    ELSE IF rhs >= 256 THEN << { }, { }, U128Shl(v[0], rhs - 256), U128Shl(v[1], rhs - 256) >>
    ELSE IF rhs >= 128
    THEN << { }, U128Shl(v[0], rhs - 128), U128Shl(v[1], rhs - 128),
            U128Shl(v[2], rhs - 128) >>
    ELSE << U128Shl(v[0], rhs), U128Shl(v[1], rhs), U128Shl(v[2], rhs),
            U128Shl(v[3], rhs) >>

\* The limbs val_0 .. val_3 after the branches of shl, for 0 < rhs < 512
ShlLimbs(v, rhs) ==
    IF rhs >= 384 THEN << { }, { }, { }, U128Shl(v[0], rhs - 384) >>
    ELSE IF rhs > 256
    THEN << { }, { },
            U128Shl(v[0], rhs - 256),
            U128Add(U128Shl(v[1], rhs - 256), U128Shr(v[0], 128 - (rhs - 256))) >>
    ELSE IF rhs = 256 THEN << { }, { }, v[0], v[1] >>
    ELSE IF rhs > 128
    THEN << { },
            U128Shl(v[0], rhs - 128),
            U128Add(U128Shl(v[1], rhs - 128), U128Shr(v[0], 128 - (rhs - 128))),
            U128Add(U128Shl(v[2], rhs - 128), U128Shr(v[1], 128 - (rhs - 128))) >>
    ELSE IF rhs = 128 THEN << { }, v[0], v[1], v[2] >>
    ELSE << U128Shl(v[0], rhs),
            U128Add(U128Shl(v[1], rhs), U128Shr(v[0], 128 - rhs)),
            U128Add(U128Shl(v[2], rhs), U128Shr(v[1], 128 - rhs)),
            U128Add(U128Shl(v[3], rhs), U128Shr(v[2], 128 - rhs)) >>

\* Shl<usize> for M512
M512Shl(x, rhs) ==
    IF rhs >= 512 THEN { }
    ELSE IF rhs = 0 THEN x
    ELSE FromLimbs(ShlLimbs(Limbs(x), rhs))

\* The limbs val_0 .. val_3 after the branches of shr, for 0 < rhs < 512
ShrLimbs(v, rhs) ==
    IF rhs >= 384 THEN << U128Shr(v[3], rhs - 384), { }, { }, { } >>
    ELSE IF rhs > 256
    THEN << U128Add(U128Shr(v[2], rhs - 256), U128Shl(v[3], 128 - (rhs - 256))),
            U128Shr(v[3], rhs - 256),
            { }, { } >>
    ELSE IF rhs = 256 THEN << v[2], v[3], { }, { } >>
    ELSE IF rhs > 128
    THEN << U128Add(U128Shr(v[1], rhs - 128), U128Shl(v[2], 128 - (rhs - 128))),
            U128Add(U128Shr(v[2], rhs - 128), U128Shl(v[3], 128 - (rhs - 128))),
            U128Shr(v[3], rhs - 128),
            { } >>
    ELSE IF rhs = 128 THEN << v[1], v[2], v[3], { } >>
    ELSE << U128Add(U128Shr(v[0], rhs), U128Shl(v[1], 128 - rhs)),
            U128Add(U128Shr(v[1], rhs), U128Shl(v[2], 128 - rhs)),
            U128Add(U128Shr(v[2], rhs), U128Shl(v[3], 128 - rhs)),
            U128Shr(v[3], rhs) >>

\* Shr<usize> for M512
M512Shr(x, rhs) ==
    IF rhs >= 512 THEN { }
    ELSE IF rhs = 0 THEN x
    ELSE FromLimbs(ShrLimbs(Limbs(x), rhs))

\* _mm512_xor_si512 (the and is the intersection)
Xor512(a, b) == (a \ b) \cup (b \ a)

\* _mm512_srli_epi64 and _mm512_slli_epi64: each 64-bit lane shifted by n
Srli64(x, n) == { b - n : b \in { c \in x : c % 64 >= n } }
Slli64(x, n) == { b + n : b \in { c \in x : (c % 64) + n < 64 } }

\* _mm512_set1_epi8: the byte, given by its one bits, in each of the 64 bytes
Set1Epi8(byte) == { 8 * j + t : j \in 0 .. 63, t \in byte }

\* _mm512_shuffle_epi8: byte j of the result is the byte of the same
\* 128-bit lane that the control byte of j names; `shuffle` lists the
\* control bytes as _mm512_set_epi8 takes them, byte 63 first
ShuffleEpi8(x, shuffle) ==
    { d \in 0 .. 511 :
        8 * (16 * ((d \div 8) \div 16) + (shuffle[64 - (d \div 8)] % 16)) + (d % 8) \in x }

\* _mm512_unpacklo_epiW (hi = 0) and _mm512_unpackhi_epiW (hi = 1): in each
\* 128-bit lane the W-bit elements of the low (high) half of a and of b,
\* alternating, a's first
UnpackEpi(a, b, w, hi) ==
    { d \in 0 .. 511 :
        IF ((d % 128) \div w) % 2 = 0
        THEN 128 * (d \div 128) + w * ((((d % 128) \div w) \div 2) + hi * (64 \div w))
               + (d % w) \in a
        ELSE 128 * (d \div 128) + w * ((((d % 128) \div w) \div 2) + hi * (64 \div w))
               + (d % w) \in b }

\* The pair interleave_bits_imm returns, given t
InterleaveImmOut(a, b, block_len, t) ==
    << Xor512(a, Slli64(t, block_len)), Xor512(b, t) >>

\* interleave_bits_imm with t taken without the mask
InterleaveBitsImmNoMask(a, b, block_len, mask) ==
    InterleaveImmOut(a, b, block_len, Xor512(Srli64(a, block_len), b))

interleave_bits_imm(a, b, block_len, mask) ==
    InterleaveImmOut(a, b, block_len, Xor512(Srli64(a, block_len), b) \cap mask)

\* The control bytes of the three shuffles of interleave_bits
SHUFFLE_8 ==
    << 15, 13, 11, 9, 7, 5, 3, 1, 14, 12, 10, 8, 6, 4, 2, 0, 15, 13, 11, 9, 7, 5, 3, 1,
       14, 12, 10, 8, 6, 4, 2, 0, 15, 13, 11, 9, 7, 5, 3, 1, 14, 12, 10, 8, 6, 4, 2, 0,
       15, 13, 11, 9, 7, 5, 3, 1, 14, 12, 10, 8, 6, 4, 2, 0 >>
SHUFFLE_16 ==
    << 15, 14, 11, 10, 7, 6, 3, 2, 13, 12, 9, 8, 5, 4, 1, 0, 15, 14, 11, 10, 7, 6, 3, 2,
       13, 12, 9, 8, 5, 4, 1, 0, 15, 14, 11, 10, 7, 6, 3, 2, 13, 12, 9, 8, 5, 4, 1, 0, 15,
       14, 11, 10, 7, 6, 3, 2, 13, 12, 9, 8, 5, 4, 1, 0 >>
SHUFFLE_32 ==
    << 15, 14, 13, 12, 7, 6, 5, 4, 11, 10, 9, 8, 3, 2, 1, 0, 15, 14, 13, 12, 7, 6, 5, 4,
       11, 10, 9, 8, 3, 2, 1, 0, 15, 14, 13, 12, 7, 6, 5, 4, 11, 10, 9, 8, 3, 2, 1, 0, 15,
       14, 13, 12, 7, 6, 5, 4, 11, 10, 9, 8, 3, 2, 1, 0 >>

\* The pair of unpacks of the two shuffled values
UnpackEpiPair(a, b, w) == << UnpackEpi(a, b, w, 0), UnpackEpi(a, b, w, 1) >>

InterleavePanics(log_block_len) == log_block_len > 6

\* interleave_bits, for a log_block_len it supports
interleave_bits(a, b, log_block_len) ==
    CASE log_block_len = 0 -> interleave_bits_imm(a, b, 1, Set1Epi8({0, 2, 4, 6}))
      [] log_block_len = 1 -> interleave_bits_imm(a, b, 2, Set1Epi8({0, 1, 4, 5}))
      [] log_block_len = 2 -> interleave_bits_imm(a, b, 4, Set1Epi8({0, 1, 2, 3}))
      [] log_block_len = 3 ->
            UnpackEpiPair(ShuffleEpi8(a, SHUFFLE_8), ShuffleEpi8(b, SHUFFLE_8), 8)
      [] log_block_len = 4 ->
            UnpackEpiPair(ShuffleEpi8(a, SHUFFLE_16), ShuffleEpi8(b, SHUFFLE_16), 16)
      [] log_block_len = 5 ->
            UnpackEpiPair(ShuffleEpi8(a, SHUFFLE_32), ShuffleEpi8(b, SHUFFLE_32), 32)
      [] log_block_len = 6 -> UnpackEpiPair(a, b, 64)

\* The loop of broadcast run once only: value |= value << (1 << n)
TileOnce(value, n) ==
    IF n >= 3 THEN value ELSE value \cup U128Shl(value, Pow2(n))

\* The loop of broadcast from n on: value |= value << (1 << n), for n up to 2
RECURSIVE Tile(_, _)
Tile(value, n) ==
    IF n >= 3 THEN value ELSE Tile(value \cup U128Shl(value, Pow2(n)), n + 1)

\* _mm512_broadcastb_epi8 (w = 8), _mm512_broadcastw_epi16, _mm512_broadcastd_epi32,
\* _mm512_broadcastq_epi64: the low w bits of the value in every w-bit lane
BroadcastEpi(value, w) ==
    { w * j + t : j \in 0 .. ((512 \div w) - 1), t \in { c \in value : c < w } }

\* The match of broadcast on the tower level, given the value after the loop
BroadcastMatch(tower_level, value) ==
    CASE tower_level \in 0 .. 3 -> BroadcastEpi(value, 8)
      [] tower_level = 4 -> BroadcastEpi(value, 16)
      [] tower_level = 5 -> BroadcastEpi(value, 32)
      [] tower_level = 6 -> BroadcastEpi(value, 64)
      [] tower_level = 7 -> FromLimbs(<< value, value, value, value >>)

\* Broadcast::broadcast for PackedPrimitiveType<M512, Scalar>: the value
\* after the loop and the 512-bit value returned
Broadcast(tower_level, scalar) ==
    [value |-> Tile(scalar, tower_level),
     result |-> BroadcastMatch(tower_level, Tile(scalar, tower_level))]

----------------------------------------------------------------------------
(* BinaryField128bPolyval: a 128-bit value in Montgomery form, kept as the  *)
(* set of the positions of its one bits                                    *)

\* _mm_xor_si128
Xor128(a, b) == { k \in 0 .. 127 : (k \in a) /= (k \in b) }

\* _mm_shuffle_epi32::<0x0E>: the 32-bit elements 2, 3, 0, 0 of a
ShuffleEpi32(a) == { d \in 0 .. 127 : 32 * (<< 2, 3, 0, 0 >>[(d \div 32) + 1]) + (d % 32) \in a }

\* _mm_clmulepi64_si128: the carry-less product of the 64-bit half ia of a
\* and the 64-bit half ib of b
ClmulHalves(x, y) == { k \in 0 .. 127 : Cardinality({ i \in x : k - i \in y }) % 2 = 1 }

Clmul(a, b, ia, ib) ==
    ClmulHalves({ c \in 0 .. 63 : 64 * ia + c \in a }, { c \in 0 .. 63 : 64 * ib + c \in b })

\* _mm_unpacklo_epi64
UnpackLo64(a, b) == { d \in 0 .. 127 : IF d < 64 THEN d \in a ELSE d - 64 \in b }

xor4(e1, e2, e3, e4) == Xor128(Xor128(e1, e2), Xor128(e3, e4))

xor5(e1, e2, e3, e4, e5) == Xor128(e1, Xor128(Xor128(e2, e3), Xor128(e4, e5)))

\* The last two lines of the reduction and the result
MontgomeryReduced(v1, v2, v3) ==
    UnpackLo64(xor4(v2, Slli64(v1, 63), Slli64(v1, 62), Slli64(v1, 57)),
               xor5(v3, v1, Srli64(v1, 1), Srli64(v1, 2), Srli64(v1, 7)))

\* The polynomial reduction of v0 .. v3
MontgomeryReduce(v0, v1, v2, v3) ==
    MontgomeryReduced(xor4(v1, Slli64(v0, 63), Slli64(v0, 62), Slli64(v0, 57)),
                      xor5(v2, v0, Srli64(v0, 1), Srli64(v0, 2), Srli64(v0, 7)),
                      v3)

\* v0 .. v3 from the three products
MontgomeryParts(t0, t1, t2) ==
    MontgomeryReduce(t0, Xor128(ShuffleEpi32(t0), t2), Xor128(t1, ShuffleEpi32(t2)),
                     ShuffleEpi32(t1))

\* The middle product t2, given t0 and t1
MontgomeryMiddle(h, y, t0, t1) ==
    MontgomeryParts(t0, t1,
                    Xor128(Clmul(Xor128(y, ShuffleEpi32(y)), Xor128(h, ShuffleEpi32(h)), 0, 0),
                           Xor128(t0, t1)))

\* simd_montgomery_multiply
simd_montgomery_multiply(h, y) ==
    MontgomeryMiddle(h, y, Clmul(y, h, 0, 0), Clmul(y, h, 1, 1))

\* Field::ONE of BinaryField128bPolyval: 0xc2000000000000000000000000000001
POLYVAL_ONE == { 0, 121, 126, 127 }

\* Mul for BinaryField128bPolyval: the product of the two single-element
\* packed values
PolyvalMul(a, b) == simd_montgomery_multiply(a, b)

\* x^(2^128 - 2): acc times the squares p^2, p^4, ... up to the 127th
RECURSIVE PolyvalPow(_, _, _)
PolyvalPowStep(p2, acc, i) == PolyvalPow(p2, PolyvalMul(acc, p2), i + 1)
PolyvalPow(p, acc, i) ==
    IF i = 127 \/ p = { } \/ acc = { } THEN acc
    ELSE PolyvalPowStep(PolyvalMul(p, p), acc, i)

\* InvertOrZero::invert_or_zero for BinaryField128bPolyval
PolyvalInvertOrZero(x) == IF x = { } THEN { } ELSE PolyvalPow(x, POLYVAL_ONE, 0)

\* Field::invert without the comparison with ZERO: the option is always full
PolyvalInvertUnchecked(x) == [value |-> PolyvalInvertOrZero(x), is_some |-> TRUE]

\* Field::invert: CtOption::new(invert_or_zero(x), x != ZERO)
PolyvalInvert(x) == [value |-> PolyvalInvertOrZero(x), is_some |-> x /= { }]

\* BinaryField128bPolyval::to_montgomery: the product with
\* 0x1e563df92ea7081b4563df92ea7081b5
to_montgomery(x) ==
    PolyvalMul(x,
        { 0, 2, 4, 5, 7, 8, 15, 20, 21, 22, 25, 27, 29, 30, 31, 33, 36, 39,
          40, 41, 42, 43, 44, 46, 47, 48, 49, 53, 54, 56, 58, 62, 64, 65,
          67, 68, 75, 80, 81, 82, 85, 87, 89, 90, 91, 93, 96, 99, 100, 101,
          102, 103, 104, 106, 107, 108, 109, 113, 114, 116, 118, 121, 122,
          123, 124 })

\* BinaryField128bPolyval::from_montgomery: the product with the raw value 1
from_montgomery(x) == PolyvalMul(x, { 0 })

\* BinaryField128bPolyval::new
PolyvalNew(value) == to_montgomery(value)

\* The results of basis and from_bases
Ok(value) == [ok |-> TRUE, value |-> value]
Err(error) == [ok |-> FALSE, error |-> error]

\* ExtensionField::basis for BinaryField128bPolyval
PolyvalBasis(i) ==
    IF i >= 128 THEN Err("ExtensionDegreeMismatch") ELSE Ok(PolyvalNew(U128Shl({ 0 }, i)))

\* The fold of from_bases over the elements k, k-1, ..., 1 of base_elems:
\* value << 1 | elem
ShlOr(value, elem) == { b \in 0 .. 127 : IF b = 0 THEN elem = 1 ELSE b - 1 \in value }

\* The fold over the elements hi, hi-1, ..., lo: the upper half first, then
\* the lower half from the value the upper half gave
RECURSIVE FromBasesFold(_, _, _, _)
FromBasesFoldLower(base_elems, lo, hi, value) ==
    IF value = { } THEN FromBasesFold(base_elems, lo, hi, { })
    ELSE FromBasesFold(base_elems, lo, hi, value)
FromBasesFold(base_elems, lo, hi, value) ==
    IF lo > hi THEN value
    ELSE IF lo = hi THEN ShlOr(value, base_elems[lo])
    ELSE FromBasesFoldLower(base_elems, lo, (lo + hi) \div 2,
                            FromBasesFold(base_elems, (lo + hi) \div 2 + 1, hi, value))

\* from_bases refusing 128 bits as well
PolyvalFromBasesStrict(base_elems) ==
    IF Len(base_elems) >= 128 THEN Err("ExtensionDegreeMismatch")
    ELSE Ok(PolyvalNew(FromBasesFold(base_elems, 1, Len(base_elems), { })))

\* ExtensionField::from_bases for BinaryField128bPolyval
PolyvalFromBases(base_elems) ==
    IF Len(base_elems) > 128 THEN Err("ExtensionDegreeMismatch")
    ELSE Ok(PolyvalNew(FromBasesFold(base_elems, 1, Len(base_elems), { })))

\* ExtensionField::iter_bases for BinaryField128bPolyval: the low bit of
\* self.0 >> i for i = 0 .. 127
PolyvalIterBases(x) == [i \in 1 .. 128 |-> IF (i - 1) \in x THEN 1 ELSE 0]

----------------------------------------------------------------------------
(* PackedField: the checked accessors of a scalar used as a packed field   *)
(* of width 1, and of a slice of packed elements                            *)

\* Error::IndexOutOfRange { index, max }
IndexOutOfRange(index, max) ==
    [ok |-> FALSE, error |-> "IndexOutOfRange", index |-> index, max |-> max]

\* A failed expect
Panicked == [ok |-> FALSE, error |-> "panic"]

\* get_checked of impl<F: Field> PackedField for F
ScalarGetChecked(self, i) == IF i = 0 THEN Ok(self) ELSE IndexOutOfRange(i, 1)

\* set_checked that writes before it looks at the index
ScalarSetCheckedWriteFirst(self, i, scalar) ==
    [self |-> scalar, result |-> IF i = 0 THEN Ok(<< >>) ELSE IndexOutOfRange(i, 1)]

\* set_checked of impl<F: Field> PackedField for F: the value afterwards and
\* the result
ScalarSetChecked(self, i, scalar) ==
    IF i = 0 THEN [self |-> scalar, result |-> Ok(<< >>)]
    ELSE [self |-> self, result |-> IndexOutOfRange(i, 1)]

\* get_checked of a packed element of more than one lane, kept as the
\* sequence of its lanes
LanesGetChecked(self, i) ==
    IF i < Len(self) THEN Ok(self[i + 1]) ELSE IndexOutOfRange(i, Len(self))

\* set_checked of a packed element of more than one lane
LanesSetChecked(self, i, scalar) ==
    IF i < Len(self) THEN [self |-> [self EXCEPT ![i + 1] = scalar], result |-> Ok(<< >>)]
    ELSE [self |-> self, result |-> IndexOutOfRange(i, Len(self))]

\* P::get_checked and P::set_checked for an element of WIDTH lanes
PackedGetChecked(el, WIDTH, i) ==
    IF WIDTH = 1 THEN ScalarGetChecked(el, i) ELSE LanesGetChecked(el, i)

PackedSetChecked(el, WIDTH, i, scalar) ==
    IF WIDTH = 1 THEN ScalarSetChecked(el, i, scalar) ELSE LanesSetChecked(el, i, scalar)

\* PackedField::get: get_checked(i).expect(..)
PackedGet(checked) == IF checked.ok THEN Ok(checked.value) ELSE Panicked

\* PackedField::set: set_checked(i, scalar).expect(..), on element k of the slice
PackedSet(packed, k, checked) ==
    IF checked.result.ok THEN [packed |-> [packed EXCEPT ![k] = checked.self], result |-> Ok(<< >>)]
    ELSE [packed |-> packed, result |-> Panicked]

\* get_packed_slice_checked
get_packed_slice_checked(packed, WIDTH, i) ==
    IF i \div WIDTH < Len(packed)
    THEN PackedGet(PackedGetChecked(packed[(i \div WIDTH) + 1], WIDTH, i % WIDTH))
    ELSE IndexOutOfRange(i, Len(packed) * WIDTH)

\* set_packed_slice_checked: the slice afterwards and the result
set_packed_slice_checked(packed, WIDTH, i, scalar) ==
    IF i \div WIDTH < Len(packed)
    THEN PackedSet(packed, (i \div WIDTH) + 1,
                   PackedSetChecked(packed[(i \div WIDTH) + 1], WIDTH, i % WIDTH, scalar))
    ELSE [packed |-> packed, result |-> IndexOutOfRange(i, Len(packed) * WIDTH)]

----------------------------------------------------------------------------
(* The conversions between BinaryField128b and BinaryField128bPolyval      *)

\* The rows of From<BinaryField128b> for BinaryField128bPolyval, each as its
\* eight 16-bit limbs from the highest to the lowest
TOWER_TO_POLYVAL ==
    << << \hc200, \h0000, \h0000, \h0000, \h0000, \h0000, \h0000, \h0001 >>,
       << \h21a0, \h9a4b, \hf26a, \hadcd, \h3eb1, \h9c5f, \h1a06, \hb528 >>,
       << \he62f, \h1a80, \h4db4, \h3b94, \h852c, \hef0e, \h61d7, \h353d >>,
       << \hadcd, \he131, \hca86, \h2a6b, \ha378, \hea68, \he992, \ha5b6 >>,
       << \h5474, \h611d, \h07bd, \hcd1f, \h72e9, \hbdc8, \h2ec4, \hfe6c >>,
       << \hf9a4, \h72d4, \ha496, \h5f4c, \haa35, \h32aa, \h6258, \hc986 >>,
       << \h10bd, \h76c9, \h2026, \h0f81, \h8776, \h81ed, \h1a50, \hb210 >>,
       << \he7f3, \h2645, \h2385, \h8ca3, \h6ef8, \h4934, \hfdd2, \h25f2 >>,
       << \h5867, \h04bd, \ha927, \h015f, \hedb8, \hddce, \hb7f8, \h25d6 >>,
       << \h552d, \hab8a, \hcfd8, \h31ae, \hb65f, \h8aae, \hc9ce, \hf096 >>,
       << \heccd, \hac66, \h6a36, \h3def, \hde67, \h92e4, \h7589, \h2fb3 >>,
       << \h4a62, \h1d01, \h7012, \h47f6, \he4a8, \h327e, \h33d9, \h5aa2 >>,
       << \h8ed5, \h002f, \hed1f, \h4b9a, \h9a11, \h840f, \h8714, \h9e2d >>,
       << \h3c65, \habbd, \h41c7, \h59f0, \h3024, \h67db, \h5a79, \h1e09 >>,
       << \hc2df, \h68a5, \h949a, \h96b3, \haa64, \h3692, \he93c, \haaab >>,
       << \h4455, \h027d, \hf88c, \h1651, \h17da, \hf982, \h2eb5, \h7383 >>,
       << \hc50e, \h3a20, \h7f91, \hd7cd, \h6dd1, \he116, \hd554, \h55fb >>,
       << \hc89c, \h3920, \hb9b2, \h4b75, \h5fd0, \h8543, \hd8ca, \hf5a2 >>,
       << \hfa58, \h3eb9, \h35de, \h76a2, \hec18, \h0360, \hb654, \h8830 >>,
       << \hc4d3, \hd3b9, \h938f, \h3af7, \h7800, \ha5cd, \h0369, \h0171 >>,
       << \he1fa, \hff3b, \h895b, \he1e2, \hbec9, \h1c08, \h3614, \h3b44 >>,
       << \h256b, \hd50f, \h868b, \h82cf, \h1c83, \h552e, \heb1c, \hd844 >>,
       << \h82fd, \h35d5, \h9007, \h3ae9, \h595c, \hab38, \he9b5, \h9d79 >>,
       << \h08da, \hdd23, \h0bc9, \h0e19, \h2304, \ha253, \h3cdc, \he9e6 >>,
       << \hf440, \h0f37, \haced, \hc7d9, \h502a, \hbeff, \h6cea, \hd84c >>,
       << \h5438, \hd34e, \h2b5b, \h9032, \h8cc8, \h8b73, \h84de, \hedfb >>,
       << \h7d79, \h8db7, \h1ef8, \h0a3e, \h447c, \hd7d1, \hd4a0, \h385d >>,
       << \ha50d, \h5ef4, \he339, \h79db, \h8012, \h303d, \hc09c, \hbf35 >>,
       << \h91c4, \hb5e2, \h9de5, \h759e, \h0bb3, \h37ef, \hbc5b, \h8115 >>,
       << \hbbb0, \hd4aa, \hba0f, \hab72, \h848f, \h461e, \hd0a4, \hb110 >>,
       << \h3c9d, \he86b, \h9a30, \h6d6d, \h11cc, \h0789, \h0407, \h6865 >>,
       << \hb5f4, \h3a16, \h6aa1, \hf15f, \h99db, \h6d68, \h9ca1, \hb370 >>,
       << \ha261, \h53cb, \h8c15, \h0af8, \h243e, \hcbd4, \h6378, \he59e >>,
       << \hccaa, \h154b, \hab1d, \hd7ac, \ha876, \hf81f, \he0c9, \h50ab >>,
       << \h4185, \hb7e3, \hee1d, \hddbc, \h761a, \h6139, \hcdb0, \h7755 >>,
       << \h2c9f, \h9528, \h5b7a, \ha574, \h653e, \hd207, \h3373, \h25f2 >>,
       << \hc8ba, \h616a, \hb131, \hbfd2, \h4219, \h5c4c, \h82d5, \h4dbb >>,
       << \h2a9b, \h0722, \h1a34, \h865f, \haa36, \ha28d, \ha1ab, \h1c24 >>,
       << \h7e6e, \h5728, \h04b5, \h48a8, \h8b92, \h900e, \h0196, \hdd39 >>,
       << \h4e90, \h60de, \hff44, \hc9ef, \h9882, \ha001, \h5deb, \hd575 >>,
       << \h00a3, \ha4d8, \hc163, \hc95a, \hc7ac, \h9a5b, \h424e, \h1c65 >>,
       << \hf67c, \h7eb5, \hdde7, \h3d96, \hf8f5, \heecb, \ha603, \h3679 >>,
       << \h54d7, \h8d18, \h7bbb, \h57d1, \h9b53, \h6094, \hba53, \h9fde >>,
       << \h76c5, \h5369, \h9edc, \h5d4a, \h0331, \h3997, \h5ab7, \hf264 >>,
       << \h74ae, \h8da4, \h3b2f, \h587d, \hf3e4, \h1bbf, \h5c6b, \he650 >>,
       << \h8a29, \h41b5, \h9774, \hc41a, \hcd85, \h0aa6, \h098e, \h5fd2 >>,
       << \h9ddf, \h6566, \h0a6f, \h8f3c, \h0058, \h165a, \h063d, \he84c >>,
       << \hbb52, \hda73, \h3635, \hcc3d, \h1ff0, \h2ef9, \h6ee6, \h4cf3 >>,
       << \h5640, \h32a0, \hd5d3, \h773b, \h7b7e, \hd18b, \hebf1, \hc668 >>,
       << \hef5c, \h765e, \h64b2, \h4b1b, \h0022, \h2054, \hff00, \h40ef >>,
       << \hade6, \h61c1, \h8acb, \ha623, \h3d48, \h4726, \he624, \h9bee >>,
       << \h9939, \hba35, \hc969, \hcdee, \ha29f, \h2ef8, \h49c2, \hd170 >>,
       << \h2b10, \h0b39, \h761d, \h4f23, \heb42, \hd05b, \h8017, \h4ce2 >>,
       << \hfbc2, \h5b17, \h9830, \hf9ee, \hc765, \hbd62, \h2912, \h5d6c >>,
       << \hb58e, \h089e, \hbe7a, \hd0b2, \h698e, \h3018, \h4ab9, \h3141 >>,
       << \h5387, \h4933, \ha148, \hbe94, \hd120, \h25af, \ha876, \h234c >>,
       << \h41bb, \hc790, \h2188, \hf4e9, \h880f, \h1d81, \hfa58, \h0ffb >>,
       << \hea41, \h9991, \h6a5d, \h127d, \h25da, \h1fe7, \h77b2, \hdcbb >>,
       << \he7bc, \h8165, \h47ef, \hbe98, \h7d93, \h59ee, \h0de0, \hc287 >>,
       << \h02e0, \hf1f6, \h7e71, \h3983, \h5892, \h155a, \h7add, \hd9da >>,
       << \hdc6b, \heb6e, \hade9, \hf875, \he749, \h55ca, \h950a, \hf235 >>,
       << \h786d, \h616e, \hdead, \hfa35, \h6453, \ha78d, \h8f10, \h3230 >>,
       << \he84e, \h7019, \h1acc, \hadda, \hc803, \h4da9, \h3673, \h7487 >>,
       << \h012b, \h8669, \hff3f, \h451e, \h5363, \hedfd, \hdd37, \hfb3c >>,
       << \h7562, \h09f0, \h893e, \h9687, \h7833, \hc194, \hb9c9, \h43a0 >>,
       << \hb2ac, \h9efc, \h9a18, \h9136, \h9f63, \hbd1e, \h0d14, \h39ac >>,
       << \h4de8, \h8e9a, \h5bbb, \h4c3d, \hf650, \hcc39, \h94c3, \hd2d8 >>,
       << \h8de7, \hb5c8, \h5c07, \hf335, \h9849, \he7c8, \h5e42, \h6b54 >>,
       << \hcadd, \h54ae, \h6a7e, \h72a4, \hf184, \he676, \h1cf2, \h26d4 >>,
       << \hcdb1, \h82fb, \h8d95, \h496f, \h55b5, \hf395, \h2f81, \hbc30 >>,
       << \h4001, \h3bc3, \hc817, \h2275, \h3a05, \hbb2a, \hca01, \ha02e >>,
       << \h704e, \h7ce5, \h5e90, \h3388, \h3e97, \h3515, \h91ad, \hf18a >>,
       << \hf330, \hcd9a, \h74a5, \he884, \h988c, \h3f36, \h567d, \h26f4 >>,
       << \h18f4, \h5353, \h04c0, \hd74a, \hc3bd, \hf09d, \h78cb, \hde50 >>,
       << \hfe73, \h9c97, \hfc26, \hbed2, \h8885, \hb838, \h405c, \h7e7e >>,
       << \h4924, \h7926, \h0f2d, \hcd8a, \hf980, \hc3d7, \h4b3e, \hc345 >>,
       << \h96b6, \h440a, \h34de, \h0aad, \h4ea2, \hf744, \h3966, \h91af >>,
       << \h9835, \h5d1b, \h4f7c, \hfb03, \h960a, \h59aa, \h564a, \h7a26 >>,
       << \h2703, \hfda0, \h5320, \h95ca, \h8b18, \h86b1, \h2ca3, \h7d64 >>,
       << \h59c9, \hdabe, \h49be, \hbf6b, \h468c, \h3c12, \h0f14, \h2822 >>,
       << \hf8f3, \hc35c, \h671b, \hac84, \h1b14, \h381a, \h592e, \h6cdd >>,
       << \hd7b8, \h8879, \h1bd8, \h3b13, \hd80d, \h2e93, \h2489, \h4861 >>,
       << \h113a, \hb040, \h5354, \hdd1c, \h5aab, \h9658, \h137f, \ha73f >>,
       << \hae56, \h192d, \h5e9c, \h309e, \h461f, \h7971, \h21b2, \h8ce6 >>,
       << \hb792, \h7ec7, \ha84c, \h2e04, \h811a, \h6dac, \h6b99, \h7783 >>,
       << \h9e2f, \h8d67, \hfc60, \h0703, \hba9b, \h4189, \hce75, \h1cb4 >>,
       << \h574e, \h95df, \h2d8b, \hb9e2, \hc8fc, \h2972, \h9eb7, \h23ca >>,
       << \h38bc, \h6fc4, \h7739, \hc06c, \hd9fa, \h20f9, \ha508, \h8f26 >>,
       << \h69d3, \hb9b1, \hd948, \h3174, \hb3c3, \h8d8f, \h95ce, \h7a5f >>,
       << \hd6e4, \hbb14, \h7cc8, \h2b6e, \h90e2, \h7e88, \h2f18, \h640d >>,
       << \h0273, \h38db, \h6418, \h04d9, \h85cd, \h9fec, \he12f, \h7adc >>,
       << \h523c, \hb739, \h6816, \h9ccc, \he76f, \h5239, \h28c4, \h364e >>,
       << \hcdcf, \h8981, \h17f9, \h2720, \h8a11, \hb0dc, \hc941, \hf2f6 >>,
       << \hc908, \h2878, \h14c8, \hcba6, \h7f78, \h92fe, \hc7a5, \hb217 >>,
       << \h92b9, \h9988, \hbb26, \h215d, \h1049, \h68d4, \hcbbb, \h285a >>,
       << \h4dbc, \ha8fd, \h835d, \h00ea, \h4b95, \h6925, \h34ef, \h5068 >>,
       << \hcd8b, \h92c8, \ha6e0, \he65e, \h167a, \h2b85, \h1f32, \hfd9c >>,
       << \hc347, \h3dfd, \ha9f9, \h7d6a, \hc1e2, \hd544, \h628e, \h7845 >>,
       << \h0260, \he7ba, \hdc64, \hdbfd, \he0dc, \h39a2, \h4036, \h5722 >>,
       << \h3966, \h125b, \h40fe, \h2bca, \h9719, \hc80e, \h4195, \h3868 >>,
       << \hac02, \h1150, \h6eda, \h3cba, \h57b7, \h09a3, \h60d4, \ha2c7 >>,
       << \h0e4f, \h0e47, \hd02f, \hedd1, \h5b33, \h7fef, \ha219, \hc52b >>,
       << \h1d59, \h07cc, \hdc65, \h9f7a, \hace6, \h7551, \h1f75, \h4ee3 >>,
       << \h4ad5, \hb368, \headd, \hc4bb, \h0972, \h8486, \h3b2a, \h5b6e >>,
       << \h2eae, \h0727, \h3b8c, \h4fc5, \hcef5, \h53a4, \ha46c, \hde5b >>,
       << \h096a, \h310e, \h7b1e, \h3a31, \h79d4, \ha3b5, \hd8dd, \h9396 >>,
       << \h8c81, \h362e, \heb16, \h56a9, \h1dde, \h08d0, \h5018, \ha353 >>,
       << \h387e, \h59e4, \h4cc0, \hd53f, \hecf7, \hf057, \hb6fd, \hba0b >>,
       << \h9d29, \h670b, \hbd0e, \h8051, \hac82, \hd91c, \ha975, \h61d6 >>,
       << \haf13, \h10d0, \hf5ca, \hc4e8, \h9714, \he480, \h65be, \h74a4 >>,
       << \h9b68, \h4a38, \h65c2, \hb59c, \h411d, \h1418, \h2a36, \hfb6b >>,
       << \h3e7d, \he163, \h516f, \hfdca, \hca22, \hb4e8, \h4834, \h0fbe >>,
       << \h3c37, \hdbe3, \h31de, \h4b0d, \hc2f5, \hdb31, \h5d5e, \h7fda >>,
       << \h19e7, \hf4b5, \h3ff8, \h6990, \he3d5, \ha1c4, \h0c37, \h69a0 >>,
       << \h5646, \h9ab3, \h2b2b, \h82e8, \hcc93, \hfdb1, \hb14a, \h4775 >>,
       << \h9c01, \hcefd, \he478, \h1630, \h0d8a, \hd49d, \h260b, \hb71b >>,
       << \h6100, \h101b, \h8ceb, \hde73, \h8136, \h6fec, \h1e4e, \h52c0 >>,
       << \ha28d, \h30c3, \hcbd8, \hb696, \h3214, \h3fa6, \h5158, \hee4f >>,
       << \h3db7, \ha902, \hec50, \h9e58, \h151c, \h45f7, \h1eee, \h6368 >>,
       << \h42d5, \ha505, \he8ab, \h7009, \h7107, \hd37d, \h79eb, \hbaba >>,
       << \he47b, \h8324, \h7cb2, \hb162, \hc7d6, \hd15c, \h84cc, \ha8ce >>,
       << \h076c, \haf0e, \h2354, \h1c75, \h3e4c, \h87ff, \h5057, \h37a5 >>,
       << \h590a, \h8d1c, \hdbd1, \h7ae8, \h3980, \hf5d1, \hd3b8, \h4a89 >>,
       << \h77d6, \h49ff, \h61a7, \hcd0d, \ha534, \h97ed, \hd34c, \h4204 >>,
       << \hefbe, \h0c34, \heeab, \h379e, \ha4a8, \hfeed, \h84fd, \h3993 >>,
       << \h9054, \h0cf7, \h957a, \h8a30, \h5162, \h9cdd, \he777, \hf968 >>,
       << \h8749, \h0504, \h96dd, \h2882, \h44c4, \h9c70, \haa92, \h831f >>,
       << \h0fc8, \h0b1d, \h6004, \h06b2, \h3703, \h68d9, \h4947, \h961a >> >>

\* The rows of From<BinaryField128bPolyval> for BinaryField128b
POLYVAL_TO_TOWER ==
    << << \h66e1, \hd645, \hd7eb, \h87dc, \ha8fc, \h4d30, \ha32d, \hadcc >>,
       << \h53ca, \h87ba, \h7717, \h2fd8, \hc567, \h5d78, \hc59c, \h1901 >>,
       << \h1a9c, \hf63d, \h3182, \h7dcd, \ha15a, \hcb75, \h5a94, \h8567 >>,
       << \ha8f2, \h8bdf, \h6d29, \hcee2, \h474b, \h0401, \ha99f, \h6c0a >>,
       << \h4eef, \ha9ef, \he87e, \hd19c, \h06b3, \h9ca9, \h799c, \h8d73 >>,
       << \h06ec, \h578f, \h505a, \hbf1e, \h9885, \ha6b2, \hbc49, \h4f3e >>,
       << \h70ec, \hdfe1, \hf601, \hf850, \h9a96, \hd3fb, \h9cd3, \h348a >>,
       << \hcb0d, \h16fc, \h7f13, \h733d, \heb25, \hf618, \hfc3f, \haf28 >>,
       << \h4e9a, \h97aa, \h2c84, \h139f, \hfcb5, \h7811, \h5fcb, \hef3c >>,
       << \hc6de, \h6210, \hafe8, \hc6bd, \h9a44, \h1bff, \he192, \h19ad >>,
       << \h73e3, \he8a7, \hc597, \h4860, \h1be5, \hbf1e, \h30c4, \h88d3 >>,
       << \h1f6d, \h67e2, \he64b, \hd6c4, \hb39e, \h7f4b, \hb37d, \hce9c >>,
       << \hc341, \h35d5, \h67ea, \hda88, \h5f50, \h95b4, \hc155, \hf3b5 >>,
       << \h23f1, \h6595, \h8d59, \ha55e, \h4790, \hb8e2, \he373, \h30e4 >>,
       << \h4f2b, \he978, \hf169, \h08e4, \h05b8, \h8802, \hadd0, \h8d17 >>,
       << \h6442, \hb00f, \h5bbf, \h4009, \h9079, \h3651, \h3c3a, \h7d45 >>,
       << \hac63, \hf039, \h7d91, \h1a7a, \h5d61, \hb9f1, \h8137, \h026f >>,
       << \h8e70, \h543a, \he0e4, \h3313, \hedf0, \h7cbc, \h6698, \he144 >>,
       << \hcb41, \h7a64, \h6d59, \hf652, \haa5a, \h0798, \h4066, \hd026 >>,
       << \hf028, \hde8d, \hd616, \h3187, \h35bd, \h8f76, \hde7b, \hb84e >>,
       << \h2e03, \ha124, \h72d2, \h1599, \hf15b, \h4bca, \ha9bf, \h186c >>,
       << \h54a3, \h76cc, \h03e5, \hb2cf, \ha27d, \h8e48, \hd1b9, \hca76 >>,
       << \hd228, \h94c2, \h5303, \h1b1b, \h201b, \h87da, \h07cb, \h58ae >>,
       << \h6bc1, \h416a, \hfea6, \h308f, \hf77d, \h902d, \hd5d2, \ha563 >>,
       << \h9958, \hecd2, \h8adb, \hebf8, \h5005, \h5f8a, \hc309, \h5121 >>,
       << \h595a, \h1b37, \h0622, \h33d7, \he6bb, \h6f54, \hc227, \hfb91 >>,
       << \h41ff, \hcfcd, \hda45, \h83c4, \hf671, \h558e, \he315, \hd809 >>,
       << \h780c, \h2490, \hf3e5, \hcb47, \h63e9, \h82ec, \h4b3e, \h6ea2 >>,
       << \hf7a4, \h50b3, \h5931, \hfa76, \h722a, \h6b90, \h37b6, \hdb34 >>,
       << \he219, \h9110, \h0e84, \h8213, \h2859, \h2772, \h430a, \hd07e >>,
       << \h360d, \h4079, \hf628, \h63cc, \h60c6, \h5ec8, \h7d6f, \h9277 >>,
       << \hd898, \hbfa0, \hb076, \hcc4e, \haca5, \h90e7, \ha60d, \hbe92 >>,
       << \hcaac, \hddd5, \he114, \hfe5c, \h2e16, \h47fc, \h34b5, \h49bf >>,
       << \h3042, \he349, \h11c2, \h8e90, \h6177, \h76dd, \hb2d3, \hf888 >>,
       << \h3728, \ha3b0, \hda53, \hcdfe, \hcfd8, \h455b, \h13cb, \h9b14 >>,
       << \h2f2e, \hb3d5, \hbc7b, \h2c48, \ha7c6, \h43bf, \hfbdd, \hc6b2 >>,
       << \h3b71, \ha5c0, \h4010, \hc0aa, \h501b, \h0430, \h2706, \hb908 >>,
       << \h0701, \h845b, \h090e, \h79bb, \h9be5, \h4df7, \h66e4, \h8c51 >>,
       << \h1e9e, \hac7b, \hf45b, \h14c8, \hdb06, \hfcff, \hf740, \h8f78 >>,
       << \h6b1b, \h8e39, \ha339, \h423d, \h0eb3, \hbef6, \h9eee, \h8b0b >>,
       << \h8b06, \h6163, \h8596, \h7df9, \h5d3a, \h99cf, \hf1ed, \hcf0a >>,
       << \h5d92, \h1137, \h890a, \h3ded, \h58e1, \hdd1a, \h51fe, \h6a30 >>,
       << \h828e, \hd6fb, \ha428, \h05b2, \h628b, \h705d, \h3812, \h1acc >>,
       << \h9b7a, \h9522, \h0e9d, \h5b0f, \hf70e, \hcb61, \h16ca, \hbd81 >>,
       << \h0eb9, \h055c, \hb117, \h11ed, \h047f, \h136c, \hab75, \h1c88 >>,
       << \hd6f5, \h9077, \h7c17, \ha6d0, \hca45, \h1290, \hf7d5, \hc78a >>,
       << \h401a, \h922a, \h6461, \hfbe6, \h91f9, \h10cb, \h0893, \he71f >>,
       << \h15a5, \h4930, \h8bc5, \h3902, \hc927, \hebad, \h9ed2, \h53f7 >>,
       << \h45dc, \hcafc, \h72a5, \h8448, \h0f34, \h0a43, \hf11a, \h1b84 >>,
       << \h19d2, \ha2c0, \h57d6, \h0656, \he6d3, \he204, \h5133, \h5d5b >>,
       << \h035a, \hf143, \ha582, \h7a0f, \h9919, \h7c8b, \h9a81, \h1454 >>,
       << \h7ee3, \h5d17, \h4ad7, \hcc69, \h2191, \hfd0e, \h013f, \h163a >>,
       << \hc4c0, \h401d, \h841f, \h965c, \h9599, \hfac8, \h831e, \hffa9 >>,
       << \h63e8, \h09a8, \h43fc, \h04f8, \h4acf, \hca3f, \hc563, \h0691 >>,
       << \hdb2f, \h3301, \h594e, \h3de4, \h9fb7, \hd78e, \h2d66, \h43c4 >>,
       << \h1b31, \h7725, \h3598, \h4ef9, \h3d70, \h9319, \hcc13, \h0a7c >>,
       << \h036d, \hc9c8, \h84cd, \h6d6c, \h9180, \h71b6, \h2a05, \h93f3 >>,
       << \h4700, \hcd0e, \h81c8, \h8045, \h1323, \h60b0, \h7802, \h7103 >>,
       << \hdfa3, \hf35e, \hb236, \hea63, \hb035, \h0e17, \hed2d, \h625d >>,
       << \hf0fd, \h7c77, \h6009, \h9f1a, \hc28b, \he918, \h2297, \h8e15 >>,
       << \h852a, \h1eba, \h3ad1, \h60e9, \h5034, \he9ee, \hd1f2, \h1205 >>,
       << \h4a07, \hdd46, \h1892, \hdf45, \hca9e, \hfee1, \h7017, \h63c3 >>,
       << \hadbb, \haa0a, \hdd4c, \h82fe, \h85fd, \h61b4, \h2f70, \h7384 >>,
       << \h5c63, \hd067, \h3f33, \hc0f2, \hc231, \hdb13, \hf0e1, \h5600 >>,
       << \h24dd, \hc151, \h6501, \h1356, \h26e0, \he794, \hdd4b, \h3076 >>,
       << \hb60c, \h601b, \hbf72, \h924e, \h38af, \hd02d, \h201f, \hb05b >>,
       << \h2ef6, \h8918, \hf416, \hcaca, \h8433, \h4bcf, \h7064, \h9aeb >>,
       << \h0b72, \ha312, \h4c50, \h4bca, \hd815, \h534c, \h7073, \h43f2 >>,
       << \hcfd8, \hb207, \h6040, \hc43d, \h5d39, \h6f85, \h23d8, \h0fe0 >>,
       << \h098d, \h9daf, \h6415, \h4a63, \h5041, \h92bb, \h27cc, \h65e1 >>,
       << \h3ae4, \h4070, \h642e, \h6720, \h2836, \h21f8, \hfb6a, \h6704 >>,
       << \h19cd, \h9b28, \h43d0, \hff93, \h6bfe, \h2b37, \h3f47, \hfd05 >>,
       << \h451e, \h2e41, \h59c7, \h8e65, \hdb10, \h4504, \h31d2, \h6122 >>,
       << \h797b, \h753e, \h29b9, \hd0e9, \h423b, \h3680, \h7c70, \hf3ae >>,
       << \ha8d0, \he8ba, \h9bb6, \h34f6, \hea30, \h6009, \h1566, \h4e22 >>,
       << \hdf8c, \h74bb, \hd66f, \h8680, \h9c50, \h4cb9, \h4447, \h5b0a >>,
       << \h3283, \h1a45, \h7ced, \h3a41, \h7a5a, \h94d4, \h9812, \h8018 >>,
       << \h1aca, \h7289, \h8593, \h6a61, \h4711, \h9b9b, \h5f00, \h350e >>,
       << \h6f43, \h6d64, \hb4ee, \h1a55, \h6b66, \h764e, \hd05b, \hb1db >>,
       << \h2593, \h0eae, \hd3fd, \h9829, \h15e4, \h83cb, \h21e5, \ha1a2 >>,
       << \h2173, \h5f5e, \hb346, \he560, \h06bf, \h1d7e, \h1517, \h80ab >>,
       << \h55fc, \h6f60, \h7f10, \he17f, \h805e, \hb16d, \h7bd5, \h345c >>,
       << \h4b4d, \h2895, \h91f8, \h7811, \h4965, \h292a, \hf4ae, \hb57e >>,
       << \h3060, \h8bc7, \h444b, \hcbaf, \hf679, \h98c1, \h883c, \h1cf3 >>,
       << \ha12a, \h72ab, \he415, \h2e4a, \h657c, \h6e63, \h9540, \h4343 >>,
       << \h7579, \h186d, \h4e09, \h59de, \hc73f, \h9cd6, \h8fb0, \he2fb >>,
       << \hb556, \h0ce6, \h3f78, \h94cc, \h965c, \h8228, \h92b7, \hbfda >>,
       << \h6b06, \hd716, \h5072, \h861e, \hba63, \hd9fd, \h6459, \h95d7 >>,
       << \h359f, \h439f, \h5ec9, \h107d, \hde3c, \h8ef8, \hf9bf, \h4e29 >>,
       << \hcbfe, \h7985, \hc600, \h6a46, \h1058, \h21cd, \h8b55, \hb06b >>,
       << \h2110, \hb3b5, \h1f53, \h97ef, \h1129, \hfb90, \h7647, \h4061 >>,
       << \h1928, \h478b, \h6f32, \h75c9, \h44c3, \h3b27, \h5c38, \h8c47 >>,
       << \h23f9, \h78e6, \ha0a5, \h4802, \h4371, \h11aa, \h4652, \h421a >>,
       << \he8c5, \h26bf, \h924d, \hc5cd, \h1dd3, \h2dbe, \hdd31, \h0f5b >>,
       << \ha0ac, \h29f9, \h01f7, \h9ed5, \hf43c, \h73d2, \h2a05, \hc8e4 >>,
       << \h55e0, \h871c, \h6e97, \h408f, \h47f4, \h635b, \h7471, \h45ea >>,
       << \h6c21, \h14c3, \h381f, \h5366, \h7d3c, \h2dfe, \hfd1e, \hbcb3 >>,
       << \h42d2, \h3c18, \h722f, \hbd58, \h863c, \h3ace, \haaa3, \heef7 >>,
       << \hbb08, \h21ab, \h38d5, \hde13, \h3838, \hf840, \h8a72, \hfdf1 >>,
       << \h035d, \h7239, \h0547, \h62b1, \h31fa, \h3877, \h73bb, \h9153 >>,
       << \h8fa8, \h98aa, \hfe8b, \h154f, \h9ab6, \h52e8, \h9791, \h39e7 >>,
       << \h6a38, \h3e5c, \hd4a1, \h6923, \hc658, \h193f, \h16cb, \h726c >>,
       << \h9948, \hcaa8, \hc6ce, \hfb01, \h8202, \h2f32, \hae3f, \h68b9 >>,
       << \h8d2a, \h8dec, \hf985, \h5bd4, \hdf7b, \hac57, \h7ed7, \h3b44 >>,
       << \h09c7, \hb830, \h0f0f, \h9842, \h59d5, \h48c5, \haa95, \h9879 >>,
       << \h92e1, \h6d2d, \h24e0, \h70ef, \hdca8, \hb8e1, \h3404, \h7afc >>,
       << \h47d8, \h6214, \h57f4, \h118a, \haf24, \h877f, \hb503, \h1512 >>,
       << \h2557, \h6941, \ha55f, \h0a0c, \h1958, \h3a96, \h6a85, \h667f >>,
       << \hb113, \hcad7, \h9cd3, \h5f2e, \h83fd, \ha3bc, \h6285, \ha8dc >>,
       << \hc769, \h68ee, \hcb27, \h48d0, \hc3e6, \h3184, \h31ff, \he580 >>,
       << \h7211, \h122a, \ha7e7, \hf6fe, \h39e6, \h6183, \h95b6, \h8416 >>,
       << \h8846, \h3599, \hbf7d, \h3e92, \hf450, \hd00a, \h4514, \h6d11 >>,
       << \h6e12, \hb7d5, \hadf9, \h5da3, \h3bbb, \h7f79, \ha18e, \he123 >>,
       << \he0a9, \h8ac4, \h025b, \hc568, \heaca, \h7e7b, \h7280, \hff16 >>,
       << \hc13f, \hc79f, \h6c35, \h048d, \hf274, \h057a, \hc892, \hff77 >>,
       << \h93c1, \ha314, \h5d4e, \h47de, \he39c, \hae4d, \he47e, \hb505 >>,
       << \h7800, \h64be, \h3036, \hdf98, \hf1e5, \hd7c5, \h3bdb, \hd52b >>,
       << \h48c4, \h67b5, \hcec2, \h6562, \h8b70, \h9172, \hecaf, \hf561 >>,
       << \h5bbb, \hab77, \hce55, \h52ff, \h7682, \h0945, \h6052, \h4a7e >>,
       << \h5515, \h37ef, \h6048, \h831f, \hb128, \hfec4, \he4a2, \h3a63 >>,
       << \he7ef, \h397f, \hcc09, \h5ead, \h4393, \h17a1, \h3568, \hb284 >>,
       << \hbc5d, \h2927, \heac0, \ha720, \hf9d7, \h5d62, \hd92c, \h6332 >>,
       << \h3bfe, \hb420, \h021f, \h93e9, \hb2bc, \h992b, \h5b59, \he61e >>,
       << \hc651, \hdc43, \h8e2f, \h1bc6, \h4af1, \hb730, \h7b57, \h4ed9 >>,
       << \hbfe0, \ha17e, \he2b7, \h7754, \h2a1d, \hdb55, \h413a, \h4e43 >>,
       << \ha062, \hda24, \h27df, \h3d1a, \h7dfc, \h01c0, \h5d73, \h2a32 >>,
       << \h1e48, \h89fd, \h72b7, \h0ecf, \h9341, \h7ba0, \hb085, \he1e8 >>,
       << \hc4f4, \h769f, \h4f9c, \h2e33, \hc26a, \h6bf2, \hca84, \h2f17 >> >>

\* Bit b of a row
RowBit(row, b) == Bit(row[8 - (b \div 16)], b % 16) = 1

\* FieldAffineTransformation::transform: the sum of the rows chosen by the
\* one bits of the value
Transform(bases, value) ==
    { b \in 0 .. 127 : Cardinality({ i \in value : RowBit(bases[i + 1], b) }) % 2 = 1 }

\* The conversion to polyval reading the table of the other direction
PolyvalFromTowerOtherTable(value) == Transform(POLYVAL_TO_TOWER, value)

\* From<BinaryField128b> for BinaryField128bPolyval
PolyvalFromTower(value) == Transform(TOWER_TO_POLYVAL, value)

\* From<BinaryField128bPolyval> for BinaryField128b
TowerFromPolyval(value) == Transform(POLYVAL_TO_TOWER, value)

\* The u128 written as eight 16-bit limbs from the highest to the lowest
U128Bits(row) == { b \in 0 .. 127 : RowBit(row, b) }

----------------------------------------------------------------------------
(* Bounds of the model                                                     *)

\* poly has length 2^n for n in 0 .. MaxLogLen
MaxLogLen == 3
\* a tampered proof is one for a poly of length 2^n, n in 0 .. MaxSoundLogLen
MaxSoundLogLen == 2
\* a forged proof is one for a poly of length 2^n, n in 0 .. MaxForgeLogLen
MaxForgeLogLen == 2
\* a query list has at most MaxQueries entries
MaxQueries == 2
\* the Merkle tree is built over at most MaxLeaves leaf digests
MaxLeaves == 4
\* the transform is built for log sizes 0 .. MaxLogSize
MaxLogSize == 2
\* cosets 0 .. MaxCoset
\* Code::new is followed up to polys of 2^MaxVariables entries
MaxVariables == 48

\* Points of up to MaxPointLen coordinates for compute_fourier_bases alone
MaxPointLen == 3

\* A data-parallel range is halved up to MaxSplitDepth times into pieces that
\* run concurrently
MaxSplitDepth == 2

\* Shift amounts run up to MaxShift, past the 512 bits of the value
MaxShift == 515

\* interleave is called with log_block_len up to MaxLogBlock
MaxLogBlock == 8

\* basis is called with the indices 0 .. MaxBasisIndex
MaxBasisIndex == 130

\* from_bases is given up to MaxBasesLen bits
MaxBasesLen == 130

\* A packed slice has up to MaxSliceLen elements
MaxSliceLen == 3

\* An index reaches up to MaxIndexPast places beyond the end
MaxIndexPast == 2

\* the twiddle tables are looked at for log sizes 1 .. MaxTableLogSize
MaxTableLogSize == 6

MaxCoset == 4

\* seed repeated to the length len
Cycle(seed, len) == [i \in 1 .. len |-> seed[((i - 1) % Len(seed)) + 1]]

\* All sequences over S of length at most n
RECURSIVE SeqsUpTo(_, _)
SeqsUpTo(S, n) ==
    IF n = 0 THEN { << >> }
    ELSE LET shorter == SeqsUpTo(S, n - 1)
         IN  shorter \cup { Append(s, e) : s \in { t \in shorter : Len(t) = n - 1 }, e \in S }

\* BinaryField32b coefficients of poly, repeated to its length
PolySeeds == { <<1>>, <<6, 1, 0>>, <<3, 300, 5, 0, 9>> }
\* BinaryField128b coordinates of the point, repeated to its length
PointSeeds == { <<0>>, <<1, 0>>, <<0, 1, 1>>, <<2, 3, 1>>, <<7, 2, 9, 1, 0>> }
\* what a tampered entry is changed by
TamperDeltas == { 1, 2 }
\* the entries of the folded polynomial that are tampered with
TamperEntries == { 0, 1, 33, 63, 70 }
\* leaf digests of the stand-alone Merkle tree
LeafDigests == { Keccak256(<<0>>), Keccak256(<<1>>), Keccak256(<<2>>) }
\* BinaryField32b entries of a transformed vector
\* 512-bit values: none and all of the bits, the bits next to the limb
\* boundaries, and two patterns with no period dividing a limb
M512Seeds ==
    { { }, 0 .. 511, { 0, 127, 128, 255, 256, 383, 384, 511 },
      { b \in 0 .. 511 : b % 3 = 0 },
      { b \in 0 .. 511 : (b * b + b \div 7) % 5 < 2 } }

\* BinaryField128bPolyval values: zero, ONE, 2, a sparse and a dense value
PolyvalSeeds ==
    { { }, { 0, 121, 126, 127 }, { 1 }, { 1, 5, 77 }, 0 .. 127,
      { b \in 0 .. 127 : b % 3 = 0 },
      { b \in 0 .. 127 : (b * b + b \div 7) % 5 < 2 },
      { 63, 64 } }

\* The values that are inverted
PolyvalInvertSeeds == { { }, { 0, 121, 126, 127 }, { 1, 5, 77 } }

\* The numbers of bits given to from_bases
BasesLens == { 0, 1, 2, 63, 64, 65 } \cup (126 .. MaxBasesLen)

\* The bits given to from_bases: bit i of a sequence, i counted from 0
BasesPatterns ==
    { [i \in 0 .. MaxBasesLen |-> 1],
      [i \in 0 .. MaxBasesLen |-> IF i % 3 = 0 THEN 1 ELSE 0],
      [i \in 0 .. MaxBasesLen |-> IF (i * i + i \div 7) % 5 < 2 THEN 1 ELSE 0] }

\* The widths of the packed elements of a slice
SliceWidths == { 1, 2, 4 }

\* Lane l of element k of a slice holds the scalar 10 * k + l
SliceElement(k, WIDTH) == IF WIDTH = 1 THEN 10 * k ELSE [l \in 1 .. WIDTH |-> 10 * k + (l - 1)]
SliceOf(len, WIDTH) == [k \in 1 .. len |-> SliceElement(k, WIDTH)]

\* The scalars that are written
SetScalars == { 0, 77 }

\* The 128-bit values that are converted: every basis value 1 << i, the
\* polyval seeds, and the polyval basis elements new(1 << i) for a few i
ConvertSeeds ==
    { { i } : i \in 0 .. 127 } \cup PolyvalSeeds
    \cup { PolyvalNew({ i }) : i \in { 0, 1, 64, 127 } }

\* The factors and the product of test_mul, before new
TEST_MUL_A == U128Bits(<< \h2a90, \h55e4, \he69a, \h61f0, \hb5cf, \hd6f4, \h1610, \h87ba >>)
TEST_MUL_B == U128Bits(<< \h3843, \hcf87, \hfb7c, \h84e1, \h8276, \h983b, \hed67, \h0337 >>)
TEST_MUL_C == U128Bits(<< \h5b26, \h19c8, \ha035, \h206a, \h1210, \h0d7a, \h171a, \ha988 >>)

NttScalars == { 0, 1, 6 }
\* BinaryField128b lanes of a transformed packed vector, repeated to its length
PackedSeeds == { <<1>>, <<0, 2, 1>>, <<5, 0, 0, 3, 1, 0, 7>> }

\* BinaryField32b values whose bits become the lanes of a PackedAlgebra32
AlgebraBitSeeds == { 1, 6, 300, 65535, 65536, 196613, 1073741829, 2147483647 }

\* The PackedAlgebra32 values that are multiplied and added: the lanes of
\* bits, and lanes of other BinaryField128b values
LanesOfBits(a) == [b \in 1 .. PACKED_LANES |-> Bit(a, b - 1)]
AlgebraSeeds ==
    { LanesOfBits(a) : a \in AlgebraBitSeeds }
    \cup { Cycle(seed, PACKED_LANES) : seed \in PackedSeeds }

\* The BinaryField32b factors
AlgebraScalars == { 0, 1, 2, 3, 6, 300, 65536, 19660806, 1073741829 }

----------------------------------------------------------------------------
(* State                                                                   *)

VARIABLES
    \* commit / prove / verify, as driven by commitment_test
    pc, poly, ntt, point, eval, commitment, merkle_tree, encoded_poly,
    queries, proof, tamper, verdict,
    \* a Merkle tree on its own
    m_pc, m_leaves, m_tree, m_index, m_path, m_ok,
    \* a transform on its own
    n_pc, n_ty, n_ntt, n_coset, n_orig, n_coeffs,
    \* one call of a function on its own: its arguments and what it returned
    c_pc, c_args, c_out

pcsVars == << pc, poly, ntt, point, eval, commitment, merkle_tree, encoded_poly,
              queries, proof, tamper, verdict >>
merkleVars == << m_pc, m_leaves, m_tree, m_index, m_path, m_ok >>
nttVars == << n_pc, n_ty, n_ntt, n_coset, n_orig, n_coeffs >>
callVars == << c_pc, c_args, c_out >>
vars == << pcsVars, merkleVars, nttVars, callVars >>

None == << >>

PcsIdle ==
    /\ pc = "idle" /\ poly = None /\ ntt = None /\ point = None /\ eval = 0
    /\ commitment = None /\ merkle_tree = None /\ encoded_poly = None
    /\ queries = None /\ proof = None /\ tamper = [kind |-> "none"] /\ verdict = "none"

MerkleIdle ==
    /\ m_pc = "idle" /\ m_leaves = None /\ m_tree = None /\ m_index = 0
    /\ m_path = None /\ m_ok = FALSE

NttIdle ==
    /\ n_pc = "idle" /\ n_ty = "F32" /\ n_ntt = None /\ n_coset = 0
    /\ n_orig = None /\ n_coeffs = None

CallIdle == c_pc = "idle" /\ c_args = None /\ c_out = None

\* Everything but the one call
OthersIdle == PcsIdle /\ MerkleIdle /\ NttIdle

----------------------------------------------------------------------------
(* commit, prove, verify: the run of commitment_test                       *)

\* poly of length 2^n, ntt = AdditiveNTT::new(n), a point of n+5 coordinates,
\* eval = evaluate_unpacked(poly, compute_fourier_bases(point))
PcsInitUpTo(max_n) ==
    /\ \E n \in 0 .. max_n, ps \in PolySeeds, qs \in PointSeeds :
          /\ poly = Cycle(ps, Pow2(n))
          /\ ntt = AdditiveNTT(n)
          /\ point = Cycle(qs, n + 5)
          /\ eval = evaluate_unpacked(Cycle(ps, Pow2(n)),
                                      compute_fourier_bases(Cycle(qs, n + 5)))
    /\ pc = "start"
    /\ commitment = None /\ merkle_tree = None /\ encoded_poly = None
    /\ queries = None /\ proof = None /\ tamper = [kind |-> "none"] /\ verdict = "none"

\* The three results of commit are stored
CommitStore(c) ==
    /\ commitment' = c.commitment
    /\ merkle_tree' = c.merkle_tree
    /\ encoded_poly' = c.encoded_poly

Commit ==
    /\ pc = "start"
    /\ CommitStore(commit(poly, ntt))
    /\ pc' = "committed"
    /\ UNCHANGED << poly, ntt, point, eval, queries, proof, tamper, verdict >>
    /\ UNCHANGED << merkleVars, nttVars, callVars >>

\* prove returned the proof, or panicked as `outcome`
ProveStore(outcome, qs) ==
    IF outcome = "ok"
    THEN /\ proof' = prove(poly, encoded_poly, merkle_tree, point, qs)
         /\ pc' = "proved"
         /\ verdict' = verdict
    ELSE /\ proof' = proof
         /\ pc' = "prove_panicked"
         /\ verdict' = outcome

\* prove on a list of column indices of the encoded matrix
Prove ==
    /\ pc = "committed"
    /\ \E qs \in SeqsUpTo(Range0(RATE * encoded_poly.cols), MaxQueries) :
          /\ queries' = qs
          /\ ProveStore(ProveOutcome(poly, encoded_poly, merkle_tree, point, qs), qs)
    /\ UNCHANGED << poly, ntt, point, eval, commitment, merkle_tree, encoded_poly, tamper >>
    /\ UNCHANGED << merkleVars, nttVars, callVars >>

Verify ==
    /\ pc = "proved"
    /\ verdict' = verify(commitment, eval, proof, point, queries, ntt)
    /\ pc' = "verified"
    /\ UNCHANGED << poly, ntt, point, eval, commitment, merkle_tree, encoded_poly,
                    queries, proof, tamper >>
    /\ UNCHANGED << merkleVars, nttVars, callVars >>

\* One scalar of one queried column is changed before the proof is verified
TamperColumn ==
    /\ pc = "proved" /\ tamper.kind = "none"
    /\ \E i \in 1 .. Len(proof.queried_columns), d \in TamperDeltas :
         \E r \in 1 .. Len(proof.queried_columns[i]) :
          /\ proof' = [proof EXCEPT !.queried_columns[i][r] = FAdd(@, d)]
          /\ tamper' = [kind |-> "column", i |-> i - 1, r |-> r - 1]
    /\ UNCHANGED << pc, poly, ntt, point, eval, commitment, merkle_tree, encoded_poly,
                    queries, verdict >>
    /\ UNCHANGED << merkleVars, nttVars, callVars >>

\* One entry of the folded polynomial is changed before the proof is verified
TamperFolded ==
    /\ pc = "proved" /\ tamper.kind = "none"
    /\ \E k \in TamperEntries \cap Range0(Len(proof.folded_poly)), d \in TamperDeltas :
          /\ proof' = [proof EXCEPT !.folded_poly[k + 1] = FAdd(@, d)]
          /\ tamper' = [kind |-> "folded", k |-> k]
    /\ UNCHANGED << pc, poly, ntt, point, eval, commitment, merkle_tree, encoded_poly,
                    queries, verdict >>
    /\ UNCHANGED << merkleVars, nttVars, callVars >>

\* The 'column' whose little-endian bytes are the two children, at layer c,
\* of node j of layer c-1: sixteen words, eight of each digest
WordsOf(digest, bytes) ==
    [w \in 1 .. WORDS_PER_DIGEST |->
        DigestWord(digest, w - 1, SubSeq(bytes, 4 * (w - 1) + 1, 4 * w))]

ForgedColumn(tree, c, j) ==
    WordsOf(At(tree[c], 2 * j), DigestBytes(At(tree[c], 2 * j)))
        \o WordsOf(At(tree[c], 2 * j + 1), DigestBytes(At(tree[c], 2 * j + 1)))

\* The siblings on the way from node j of layer c-1 to the root: the path of
\* the first leaf below that node, without its entries below layer c-1
ForgedPath(tree, c, j) ==
    SubSeq(get_merkle_path(tree, j * Pow2(TreeLen(tree) - c)),
           TreeLen(tree) - c + 1, TreeLen(tree) - 1)

\* folded with block q replaced by lanes
FoldedWithBlock(folded, q, lanes) ==
    [k \in 1 .. Len(folded) |->
        IF (k - 1) \div PACKED_LANES = q THEN lanes[((k - 1) % PACKED_LANES) + 1]
        ELSE folded[k]]

\* The entries outside block q whose tail scalar is not zero
FreeEntries(folded, q, tail) ==
    { k \in 1 .. Len(folded) : (k - 1) \div PACKED_LANES /= q /\ tail[k] /= 0 }

\* base with entry f moved so that the combination with tail is eval_
FoldedWithEval(base, f, tail, eval_) ==
    [base EXCEPT ![f] = FAdd(@, FMul(FAdd(eval_, linear_combination(tail, base)),
                                     InvertOrZero(tail[f])))]

\* A folded polynomial whose block q is lanes and which still evaluates to
\* eval_, when an entry outside block q is free to move
ForgedFolded(folded, q, lanes, tail, eval_) ==
    IF FreeEntries(folded, q, tail) = { } THEN FoldedWithBlock(folded, q, lanes)
    ELSE FoldedWithEval(FoldedWithBlock(folded, q, lanes),
                        CHOOSE f \in FreeEntries(folded, q, tail) :
                            \A g \in FreeEntries(folded, q, tail) : f <= g,
                        tail, eval_)

\* The proof with answer i forged from the children at layer c of node j
ForgedProof(i, c, j, column) ==
    [folded_poly |->
        ForgedFolded(proof.folded_poly, queries[i],
                     unpacked_linear_combination(
                         compute_fourier_bases(PointHead(point, commitment.cols)),
                         column),
                     compute_fourier_bases(PointTail(point, commitment.cols)), eval),
     queried_columns |-> [proof.queried_columns EXCEPT ![i] = column],
     merkle_paths |-> [proof.merkle_paths EXCEPT ![i] = ForgedPath(merkle_tree, c, j)]]

\* One answer of the proof is replaced before the proof is verified: the
\* column by the bytes of two sibling nodes of the tree, the path by the path
\* of their parent, the folded polynomial by one that agrees with that column
ForgeColumn ==
    /\ pc = "proved" /\ tamper.kind = "none"
    /\ \E i \in 1 .. Len(queries), c \in 1 .. (TreeLen(merkle_tree) - 1) :
         \E j \in Range0(Len(merkle_tree[c - 1])) :
          /\ \A d \in Range0(c - 1) : Bit(queries[i], d) = Bit(j, d)
          /\ proof' = ForgedProof(i, c, j, ForgedColumn(merkle_tree, c, j))
          /\ tamper' = [kind |-> "forged", i |-> i - 1, layer |-> c, node |-> j]
    /\ UNCHANGED << pc, poly, ntt, point, eval, commitment, merkle_tree, encoded_poly,
                    queries, verdict >>
    /\ UNCHANGED << merkleVars, nttVars, callVars >>

PcsInit == PcsInitUpTo(MaxLogLen)

Init == PcsInit /\ MerkleIdle /\ NttIdle /\ CallIdle
Next == Commit \/ Prove \/ Verify
Spec == Init /\ [][Next]_vars

SoundNext == Commit \/ Prove \/ TamperColumn \/ TamperFolded \/ Verify
InitSound == PcsInitUpTo(MaxSoundLogLen) /\ MerkleIdle /\ NttIdle /\ CallIdle
SpecSound == InitSound /\ [][SoundNext]_vars

ForgeNext == Commit \/ Prove \/ ForgeColumn \/ Verify
InitForge == PcsInitUpTo(MaxForgeLogLen) /\ MerkleIdle /\ NttIdle /\ CallIdle
SpecForge == InitForge /\ [][ForgeNext]_vars

----------------------------------------------------------------------------
(* A Merkle tree on its own: merklize, get_merkle_path, verify_merkle_path *)

MerkleInit ==
    /\ m_leaves \in SeqsUpTo(LeafDigests, MaxLeaves)
    /\ m_pc = "start" /\ m_tree = None /\ m_index = 0 /\ m_path = None /\ m_ok = FALSE

\* merklize builds the tree, or fails its assert and builds nothing
Merklize ==
    /\ m_pc = "start"
    /\ IF MerklizePanics(m_leaves)
       THEN m_pc' = "merklize_panicked" /\ m_tree' = m_tree
       ELSE m_pc' = "built" /\ m_tree' = merklize(m_leaves)
    /\ UNCHANGED << m_leaves, m_index, m_path, m_ok >>
    /\ UNCHANGED << pcsVars, nttVars, callVars >>

\* get_merkle_path for a leaf index, also the first one past the leaves
GetMerklePath ==
    /\ m_pc = "built"
    /\ \E i \in 0 .. Len(m_leaves) :
          /\ m_index' = i
          /\ IF GetMerklePathPanics(m_tree, i)
             THEN m_pc' = "path_panicked" /\ m_path' = m_path
             ELSE m_pc' = "path" /\ m_path' = get_merkle_path(m_tree, i)
    /\ UNCHANGED << m_leaves, m_tree, m_ok >>
    /\ UNCHANGED << pcsVars, nttVars, callVars >>

\* verify_merkle_path of the leaf at m_index against the root
VerifyMerklePath ==
    /\ m_pc = "path" /\ m_index < Len(m_leaves)
    /\ m_ok' = verify_merkle_path(get_root(m_tree), At(m_leaves, m_index), m_index, m_path)
    /\ m_pc' = "checked"
    /\ UNCHANGED << m_leaves, m_tree, m_index, m_path >>
    /\ UNCHANGED << pcsVars, nttVars, callVars >>

InitMerkle == PcsIdle /\ MerkleInit /\ NttIdle /\ CallIdle
NextMerkle == Merklize \/ GetMerklePath \/ VerifyMerklePath
SpecMerkle == InitMerkle /\ [][NextMerkle]_vars

----------------------------------------------------------------------------
(* A transform on its own: forward_ntt and inverse_ntt, one after the other *)

\* The vectors of length len of the coefficient type ty
NttVectors(ty, len) ==
    IF ty = "F32" THEN [1 .. len -> NttScalars]
    ELSE { Pack(Cycle(seed, PACKED_LANES * len)) : seed \in PackedSeeds }

NttInit ==
    /\ \E ty \in CoefTypes, log_size \in 0 .. MaxLogSize, k \in 0 .. MaxLogSize,
          coset \in 0 .. MaxCoset :
          /\ n_ty = ty
          /\ n_ntt = AdditiveNTT(log_size)
          /\ n_coset = coset
          /\ n_orig \in NttVectors(ty, Pow2(k))
    /\ n_coeffs = n_orig
    /\ n_pc = "start"

\* Where a forward transform leads from each position
AfterForward(at) == IF at = "start" THEN "fwd" ELSE "inv_fwd"

\* Where an inverse transform leads from each position
AfterInverse(at) == IF at = "start" THEN "inv" ELSE "fwd_inv"

ForwardNtt ==
    /\ n_pc \in {"start", "inv"}
    /\ IF NttPanics(n_ntt, n_coeffs)
       THEN n_pc' = "panicked"
            /\ n_coeffs' = NttPanicked(n_ty, TRUE, n_ntt, n_coeffs, n_coset)
       ELSE n_pc' = AfterForward(n_pc)
            /\ n_coeffs' = forward_ntt(n_ty, n_ntt, n_coeffs, n_coset)
    /\ UNCHANGED << n_ty, n_ntt, n_coset, n_orig >>
    /\ UNCHANGED << pcsVars, merkleVars, callVars >>

InverseNtt ==
    /\ n_pc \in {"start", "fwd"}
    /\ IF NttPanics(n_ntt, n_coeffs)
       THEN n_pc' = "panicked"
            /\ n_coeffs' = NttPanicked(n_ty, FALSE, n_ntt, n_coeffs, n_coset)
       ELSE n_pc' = AfterInverse(n_pc)
            /\ n_coeffs' = inverse_ntt(n_ty, n_ntt, n_coeffs, n_coset)
    /\ UNCHANGED << n_ty, n_ntt, n_coset, n_orig >>
    /\ UNCHANGED << pcsVars, merkleVars, callVars >>

InitNtt == PcsIdle /\ MerkleIdle /\ NttInit /\ CallIdle
NextNtt == ForwardNtt \/ InverseNtt
SpecNtt == InitNtt /\ [][NextNtt]_vars

\* The transforms of short vectors under the tables of the larger log sizes
TableInit ==
    /\ \E ty \in CoefTypes, log_size \in 1 .. MaxTableLogSize, k \in 0 .. MaxLogSize,
          coset \in { 0, MaxCoset } :
          /\ n_ty = ty
          /\ n_ntt = AdditiveNTT(log_size)
          /\ n_coset = coset
          /\ n_orig \in NttVectors(ty, Pow2(k))
    /\ n_coeffs = n_orig
    /\ n_pc = "start"

InitTables == PcsIdle /\ MerkleIdle /\ TableInit /\ CallIdle
SpecTables == InitTables /\ [][NextNtt]_vars

----------------------------------------------------------------------------
(* Single calls: the encoder, Code::new, compute_fourier_bases, and the    *)
(* data-parallel loops                                                     *)

\* ---------------------------------------------------------------------
\* The encoder on its own: one message, encoded once by encode (a vector
\* of BinaryField32b) or by encode_extension (a vector of BinaryField128b
\* whose packing is n_orig)
\* ---------------------------------------------------------------------
Encode ==
    /\ n_pc = "start"
    /\ n_ty = "F32"
    /\ IF NttPanics(n_ntt, n_orig)
       THEN n_pc' = "panicked" /\ n_coeffs' = n_coeffs
       ELSE n_pc' = "encoded" /\ n_coeffs' = encode(n_orig, n_ntt)
    /\ UNCHANGED << n_ty, n_ntt, n_coset, n_orig >>
    /\ UNCHANGED << pcsVars, merkleVars, callVars >>

EncodeExtension ==
    /\ n_pc = "start"
    /\ n_ty = "P32"
    /\ IF NttPanics(n_ntt, n_orig)
       THEN n_pc' = "panicked" /\ n_coeffs' = n_coeffs
       ELSE n_pc' = "encoded" /\ n_coeffs' = encode_extension(Unpack(n_orig), n_ntt)
    /\ UNCHANGED << n_ty, n_ntt, n_coset, n_orig >>
    /\ UNCHANGED << pcsVars, merkleVars, callVars >>

InitEncode == PcsIdle /\ MerkleIdle /\ NttInit /\ n_coset = 0 /\ CallIdle
NextEncode == Encode \/ EncodeExtension
SpecEncode == InitEncode /\ [][NextEncode]_vars

\* ---------------------------------------------------------------------
\* Code::new on its own. A poly of up to 2^MaxLogLen entries is built and
\* encoded; of a longer one only the number of variables is kept, and of
\* its Code only the shape.
\* ---------------------------------------------------------------------
CodeNewArgs ==
    { [variables |-> v, poly |-> Cycle(seed, Pow2(v))] :
        v \in 0 .. MaxLogLen, seed \in PolySeeds }
    \cup { [variables |-> v, poly |-> None] : v \in (MaxLogLen + 1) .. MaxVariables }

\* The exponents Code::new computes, and the Code where the poly is at hand
CodeNewOut(args) ==
    [log_cols |-> LogCols(args.variables),
     log_rows |-> args.variables - LogCols(args.variables),
     code |-> IF args.poly = None THEN None
              ELSE CodeNew(args.poly, AdditiveNTT(args.variables))]

CodeNewCall ==
    /\ c_pc = "start"
    /\ c_pc' = "code_new"
    /\ c_out' = CodeNewOut(c_args)
    /\ UNCHANGED c_args
    /\ UNCHANGED << pcsVars, merkleVars, nttVars >>

InitShape == OthersIdle /\ c_pc = "start" /\ c_args \in CodeNewArgs /\ c_out = None
NextShape == CodeNewCall
SpecShape == InitShape /\ [][NextShape]_vars

\* ---------------------------------------------------------------------
\* compute_fourier_bases on its own
\* ---------------------------------------------------------------------
FourierScalars == { 0, 1, 6, 300 }

FourierBasesCall ==
    /\ c_pc = "start"
    /\ IF FourierBasesPanics(c_args)
       THEN c_pc' = "panicked" /\ c_out' = c_out
       ELSE c_pc' = "fourier" /\ c_out' = compute_fourier_bases(c_args)
    /\ UNCHANGED c_args
    /\ UNCHANGED << pcsVars, merkleVars, nttVars >>

InitFourier ==
    /\ OthersIdle
    /\ c_pc = "start"
    /\ \E n \in 0 .. MaxPointLen : c_args \in [1 .. n -> FourierScalars]
    /\ c_out = None
NextFourier == FourierBasesCall
SpecFourier == InitFourier /\ [][NextFourier]_vars

\* ---------------------------------------------------------------------
\* The data-parallel loops and the parallel reductions. A range of indices
\* is split by halving into contiguous pieces; each piece runs its indices
\* in order, each index its steps in order, and the steps of different
\* pieces interleave freely. c_args.cuts holds the first index of every
\* piece and, last, the end of the range; c_out.done[p] counts the steps
\* piece p has taken.
\* ---------------------------------------------------------------------
TaskLoops == { "encode_interleaved", "commit", "merklize", "make_linear_combination",
               "col", "unpacked_linear_combination" }
Reductions == { "linear_combination", "evaluate_unpacked" }

\* The first indices of the pieces of [lo, hi) after at most `depth` halvings
RECURSIVE Halvings(_, _, _)
Halvings(lo, hi, depth) ==
    { << lo >> }
    \cup IF depth = 0 \/ hi - lo < 2 THEN { }
         ELSE { l \o r : l \in Halvings(lo, lo + (hi - lo) \div 2, depth - 1),
                         r \in Halvings(lo + (hi - lo) \div 2, hi, depth - 1) }

\* The number of tasks of the loop, or of items of the reduction
ParLen(call) ==
    CASE call.kind = "encode_interleaved" -> call.rows
      [] call.kind = "commit" -> call.encoded_poly.cols
      [] call.kind = "merklize" -> Len(call.lower_layer) \div 2
      [] call.kind = "make_linear_combination" -> Len(call.poly[1])
      [] call.kind = "col" -> call.code.rows
      [] call.kind = "unpacked_linear_combination" -> 32
      [] call.kind = "linear_combination" -> Min(Len(call.vals), Len(call.scalars))
      [] call.kind = "evaluate_unpacked" -> Len(call.poly)

\* The number of writes one task makes to its output
ParStepsPer(call) ==
    CASE call.kind = "make_linear_combination" -> Len(call.poly) * 32
      [] call.kind = "unpacked_linear_combination" -> Len(call.scalars)
      [] OTHER -> 1

\* The output before any task ran: zeros where the loop runs over a vector
\* it was handed, unfilled slots where the results are collected
ParInitOut(call) ==
    CASE call.kind = "make_linear_combination" -> [k \in 1 .. (Len(call.poly[1]) * 32) |-> 0]
      [] call.kind = "col" -> [k \in 1 .. call.code.rows |-> 0]
      [] call.kind = "unpacked_linear_combination" -> [k \in 1 .. 32 |-> 0]
      [] OTHER -> [k \in 1 .. ParLen(call) |-> None]

\* One pass of the inner loop of make_linear_combination's task `col`:
\* *entry[bit] += scalars[row] if the bit of poly[row][col] is set
LinearCombinationStep(call, out, col, row, bit) ==
    IF Bit(At(call.poly[row + 1], col), bit) = 1
    THEN [out EXCEPT ![col * 32 + bit + 1] = FAdd(@, At(call.scalars, row))]
    ELSE out

\* The pass of lane i adding into lane 0 whatever lane it runs for
UnpackedLaneStepShared(call, out, i, k) ==
    IF Bit(At(call.vals, k), i) = 1
    THEN [out EXCEPT ![1] = FAdd(@, At(call.scalars, k))]
    ELSE out

\* One pass of the loop of unpacked_linear_combination's lane i:
\* *val += scalars[k] if bit i of vals[k] is set
UnpackedLaneStep(call, out, i, k) ==
    IF Bit(At(call.vals, k), i) = 1
    THEN [out EXCEPT ![i + 1] = FAdd(@, At(call.scalars, k))]
    ELSE out

\* Step s of task i
ParStep(call, out, i, s) ==
    CASE call.kind = "encode_interleaved" ->
            [out EXCEPT ![i + 1] = encode(At(call.poly, i), call.ntt)]
      [] call.kind = "commit" ->
            [out EXCEPT ![i + 1] = hash_field(Col(call.encoded_poly, i))]
      [] call.kind = "merklize" ->
            [out EXCEPT ![i + 1] = hash_concatenation(At(call.lower_layer, 2 * i),
                                                      At(call.lower_layer, 2 * i + 1))]
      [] call.kind = "make_linear_combination" ->
            LinearCombinationStep(call, out, i, s \div 32, s % 32)
      [] call.kind = "col" ->
            [out EXCEPT ![i + 1] = At(call.code.code[i + 1], call.col)]
      [] call.kind = "unpacked_linear_combination" ->
            UnpackedLaneStep(call, out, i, s)

\* Item k of the reduction
ReduceItem(call, k) ==
    CASE call.kind = "linear_combination" -> FMul(At(call.scalars, k), At(call.vals, k))
      [] call.kind = "evaluate_unpacked" ->
            ChunkSum(At(call.poly, k), SubSeq(call.basis, k * 32 + 1, (k + 1) * 32), 32)

\* The steps piece p has to take
PieceSteps(args, p) ==
    (args.cuts[p + 1] - args.cuts[p])
      * (IF args.call.kind \in TaskLoops THEN ParStepsPer(args.call) ELSE 1)

ParCalls ==
    { [kind |-> "encode_interleaved", rows |-> 4, ntt |-> AdditiveNTT(1),
       poly |-> make_coeff_matrix(Cycle(<<3, 300, 5, 0, 9>>, 8), 2)],
      [kind |-> "commit",
       encoded_poly |-> CodeNew(Cycle(<<3, 300, 5, 0, 9>>, 8), AdditiveNTT(3))],
      [kind |-> "merklize",
       lower_layer |-> LeafHashes(CodeNew(Cycle(<<3, 300, 5, 0, 9>>, 8), AdditiveNTT(3)))],
      [kind |-> "make_linear_combination", scalars |-> <<6, 300>>,
       poly |-> make_coeff_matrix(<<6, 1, 0, 7>>, 2)],
      [kind |-> "col", col |-> 1,
       code |-> CodeNew(Cycle(<<3, 300, 5, 0, 9>>, 8), AdditiveNTT(3))],
      [kind |-> "unpacked_linear_combination", scalars |-> <<6, 300>>, vals |-> <<5, 300>>],
      [kind |-> "linear_combination", scalars |-> <<6, 300, 1, 7>>,
       vals |-> <<3, 5, 300, 9>>],
      [kind |-> "evaluate_unpacked", poly |-> <<3, 300, 5, 9>>,
       basis |-> compute_fourier_bases(<<2, 3, 1, 7, 2, 9, 1>>)] }

\* The state before the pieces start
ParStart(call, first) ==
    /\ c_args = [call |-> call, cuts |-> first \o << ParLen(call) >>]
    /\ c_out = IF call.kind \in TaskLoops
               THEN [out |-> ParInitOut(call), done |-> [p \in 1 .. Len(first) |-> 0]]
               ELSE [acc |-> [p \in 1 .. Len(first) |-> 0],
                     done |-> [p \in 1 .. Len(first) |-> 0],
                     live |-> 1 .. Len(first)]

\* A piece of a loop runs the next step of its current task
TaskStep ==
    /\ c_pc = "par"
    /\ c_args.call.kind \in TaskLoops
    /\ \E p \in 1 .. Len(c_out.done) :
          /\ c_out.done[p] < PieceSteps(c_args, p)
          /\ c_out' = [out |-> ParStep(c_args.call, c_out.out,
                                       c_args.cuts[p]
                                         + c_out.done[p] \div ParStepsPer(c_args.call),
                                       c_out.done[p] % ParStepsPer(c_args.call)),
                       done |-> [c_out.done EXCEPT ![p] = @ + 1]]
    /\ UNCHANGED << c_pc, c_args >>
    /\ UNCHANGED << pcsVars, merkleVars, nttVars >>

\* A piece of a reduction adds its next item to its partial sum
FoldStep ==
    /\ c_pc = "par"
    /\ c_args.call.kind \in Reductions
    /\ \E p \in 1 .. Len(c_out.done) :
          /\ c_out.done[p] < PieceSteps(c_args, p)
          /\ c_out' = [c_out EXCEPT
                         !.acc[p] = FAdd(@, ReduceItem(c_args.call,
                                                       c_args.cuts[p] + c_out.done[p])),
                         !.done[p] = @ + 1]
    /\ UNCHANGED << c_pc, c_args >>
    /\ UNCHANGED << pcsVars, merkleVars, nttVars >>

\* Two finished partial sums are added, in either order
Combine ==
    /\ c_pc = "par"
    /\ c_args.call.kind \in Reductions
    /\ \E a \in c_out.live, b \in c_out.live :
          /\ a /= b
          /\ c_out.done[a] = PieceSteps(c_args, a)
          /\ c_out.done[b] = PieceSteps(c_args, b)
          /\ c_out' = [c_out EXCEPT !.acc[a] = FAdd(@, c_out.acc[b]),
                                    !.live = @ \ {b}]
    /\ UNCHANGED << c_pc, c_args >>
    /\ UNCHANGED << pcsVars, merkleVars, nttVars >>

InitPar ==
    /\ OthersIdle
    /\ c_pc = "par"
    /\ \E call \in ParCalls :
         \E first \in Halvings(0, ParLen(call), MaxSplitDepth) : ParStart(call, first)
NextPar == TaskStep \/ FoldStep \/ Combine
SpecPar == InitPar /\ [][NextPar]_vars

\* ---------------------------------------------------------------------
\* M512 on its own: one shift
\* ---------------------------------------------------------------------
ShiftCalls ==
    { [op |-> op, x |-> x, rhs |-> rhs] :
        op \in {"shl", "shr"}, x \in M512Seeds, rhs \in 0 .. MaxShift }

ShlCall ==
    /\ c_pc = "start"
    /\ c_args.op = "shl"
    /\ c_pc' = "shl"
    /\ c_out' = M512Shl(c_args.x, c_args.rhs)
    /\ UNCHANGED c_args
    /\ UNCHANGED << pcsVars, merkleVars, nttVars >>

ShrCall ==
    /\ c_pc = "start"
    /\ c_args.op = "shr"
    /\ c_pc' = "shr"
    /\ c_out' = M512Shr(c_args.x, c_args.rhs)
    /\ UNCHANGED c_args
    /\ UNCHANGED << pcsVars, merkleVars, nttVars >>

InterleaveCalls ==
    { [op |-> "interleave", a |-> a, b |-> b, log_block_len |-> l] :
        a \in M512Seeds, b \in M512Seeds, l \in 0 .. MaxLogBlock }

\* interleave, on the arguments and then once more on the pair it returned
InterleaveCall ==
    /\ c_args.op = "interleave"
    /\ \/ /\ c_pc = "start"
          /\ IF InterleavePanics(c_args.log_block_len)
             THEN c_pc' = "panicked" /\ c_out' = c_out
             ELSE /\ c_pc' = "interleaved"
                  /\ c_out' = interleave_bits(c_args.a, c_args.b, c_args.log_block_len)
       \/ /\ c_pc = "interleaved"
          /\ c_pc' = "interleaved_twice"
          /\ c_out' = interleave_bits(c_out[1], c_out[2], c_args.log_block_len)
    /\ UNCHANGED c_args
    /\ UNCHANGED << pcsVars, merkleVars, nttVars >>

\* The scalars of tower level t have 2^t bits: every one of them up to
\* 4 bits, the low bits of the 512-bit values above that
BroadcastCalls ==
    { [op |-> "broadcast", tower_level |-> t, scalar |-> s] :
        t \in 0 .. 2, s \in SUBSET (0 .. 3) }
    \cup { [op |-> "broadcast", tower_level |-> t, scalar |-> s] :
             t \in 3 .. 7, s \in M512Seeds }

\* The underlier of the scalar: its bits below the width of the tower level
ScalarBits(call) == { b \in call.scalar : b < Pow2(call.tower_level) }

BroadcastCall ==
    /\ c_pc = "start"
    /\ c_args.op = "broadcast"
    /\ c_pc' = "broadcast"
    /\ c_out' = Broadcast(c_args.tower_level, ScalarBits(c_args))
    /\ UNCHANGED c_args
    /\ UNCHANGED << pcsVars, merkleVars, nttVars >>

InitM512 ==
    /\ OthersIdle
    /\ c_pc = "start"
    /\ c_args \in ShiftCalls \cup InterleaveCalls \cup BroadcastCalls
    /\ c_out = None
NextM512 == ShlCall \/ ShrCall \/ InterleaveCall \/ BroadcastCall
SpecM512 == InitM512 /\ [][NextM512]_vars

\* BinaryField128bPolyval: a product, or an inversion by invert_or_zero
\* followed by invert

PolyvalMulCalls ==
    { [op |-> "mul", a |-> a, b |-> b] : a \in PolyvalSeeds, b \in PolyvalSeeds }
    \cup { [op |-> "mul", a |-> PolyvalNew(TEST_MUL_A), b |-> PolyvalNew(TEST_MUL_B)] }

PolyvalNewCalls == { [op |-> "new", value |-> v] : v \in PolyvalSeeds \cup { TEST_MUL_A } }

PolyvalInvertCalls == { [op |-> "invert", x |-> x] : x \in PolyvalInvertSeeds }

PolyvalMulCall ==
    /\ c_pc = "start"
    /\ c_args.op = "mul"
    /\ c_pc' = "multiplied"
    /\ c_out' = PolyvalMul(c_args.a, c_args.b)
    /\ UNCHANGED c_args
    /\ UNCHANGED << pcsVars, merkleVars, nttVars >>

PolyvalInvertOrZeroCall ==
    /\ c_pc = "start"
    /\ c_args.op = "invert"
    /\ c_pc' = "inverted_or_zero"
    /\ c_out' = [inverse |-> PolyvalInvertOrZero(c_args.x), option |-> None]
    /\ UNCHANGED c_args
    /\ UNCHANGED << pcsVars, merkleVars, nttVars >>

PolyvalInvertCall ==
    /\ c_pc = "inverted_or_zero"
    /\ c_pc' = "inverted"
    /\ c_out' = [c_out EXCEPT !.option = PolyvalInvert(c_args.x)]
    /\ UNCHANGED c_args
    /\ UNCHANGED << pcsVars, merkleVars, nttVars >>

PolyvalBasisCalls == { [op |-> "basis", i |-> i] : i \in 0 .. MaxBasisIndex }

PolyvalFromBasesCalls ==
    { [op |-> "from_bases", base_elems |-> [i \in 1 .. n |-> p[i - 1]]] :
        n \in BasesLens, p \in BasesPatterns }

PolyvalIterBasesCalls == { [op |-> "iter_bases", x |-> x] : x \in PolyvalSeeds }

PolyvalBasisCall ==
    /\ c_pc = "start"
    /\ c_args.op = "basis"
    /\ c_pc' = "basis"
    /\ c_out' = PolyvalBasis(c_args.i)
    /\ UNCHANGED c_args
    /\ UNCHANGED << pcsVars, merkleVars, nttVars >>

PolyvalIterBasesCall ==
    /\ c_pc = "start"
    /\ c_args.op = "iter_bases"
    /\ c_pc' = "iter_bases"
    /\ c_out' = PolyvalIterBases(c_args.x)
    /\ UNCHANGED c_args
    /\ UNCHANGED << pcsVars, merkleVars, nttVars >>

PolyvalNewCall ==
    /\ c_pc = "start"
    /\ c_args.op = "new"
    /\ c_pc' = "new"
    /\ c_out' = [montgomery |-> PolyvalNew(c_args.value), raw |-> None]
    /\ UNCHANGED c_args
    /\ UNCHANGED << pcsVars, merkleVars, nttVars >>

FromMontgomeryCall ==
    /\ c_pc = "new"
    /\ c_pc' = "from_montgomery"
    /\ c_out' = [c_out EXCEPT !.raw = from_montgomery(c_out.montgomery)]
    /\ UNCHANGED c_args
    /\ UNCHANGED << pcsVars, merkleVars, nttVars >>

\* from_bases, of the bits of the call or of the bits iter_bases gave
PolyvalFromBasesCall ==
    /\ \/ c_pc = "start" /\ c_args.op = "from_bases"
       \/ c_pc = "iter_bases"
    /\ c_pc' = "from_bases"
    /\ c_out' = PolyvalFromBases(IF c_pc = "iter_bases" THEN c_out ELSE c_args.base_elems)
    /\ UNCHANGED c_args
    /\ UNCHANGED << pcsVars, merkleVars, nttVars >>

InitPolyval ==
    /\ OthersIdle
    /\ c_pc = "start"
    /\ c_args \in PolyvalMulCalls \cup PolyvalInvertCalls \cup PolyvalBasisCalls
                  \cup PolyvalFromBasesCalls \cup PolyvalIterBasesCalls \cup PolyvalNewCalls
    /\ c_out = None
NextPolyval ==
    \/ PolyvalMulCall
    \/ PolyvalInvertOrZeroCall
    \/ PolyvalInvertCall
    \/ PolyvalBasisCall
    \/ PolyvalIterBasesCall
    \/ PolyvalFromBasesCall
    \/ PolyvalNewCall
    \/ FromMontgomeryCall
SpecPolyval == InitPolyval /\ [][NextPolyval]_vars

\* PackedField: one checked access of a scalar or of a packed slice

PackedScalarCalls ==
    { [op |-> "get_checked", self |-> s, i |-> i] : s \in SetScalars, i \in 0 .. MaxIndexPast }
    \cup { [op |-> "set_checked", self |-> s, i |-> i, scalar |-> v] :
             s \in SetScalars, i \in 0 .. MaxIndexPast, v \in SetScalars }

PackedSliceCallsOf(len, WIDTH) ==
    { [op |-> "get_packed_slice_checked", packed |-> SliceOf(len, WIDTH), WIDTH |-> WIDTH,
       i |-> i] : i \in 0 .. len * WIDTH + MaxIndexPast }
    \cup { [op |-> "set_packed_slice_checked", packed |-> SliceOf(len, WIDTH), WIDTH |-> WIDTH,
            i |-> i, scalar |-> v] : i \in 0 .. len * WIDTH + MaxIndexPast, v \in SetScalars }

PackedSliceCalls ==
    UNION { PackedSliceCallsOf(len, WIDTH) : len \in 0 .. MaxSliceLen, WIDTH \in SliceWidths }

GetCheckedCall ==
    /\ c_pc = "start"
    /\ c_args.op = "get_checked"
    /\ c_pc' = "returned"
    /\ c_out' = [self |-> c_args.self, result |-> ScalarGetChecked(c_args.self, c_args.i)]
    /\ UNCHANGED c_args
    /\ UNCHANGED << pcsVars, merkleVars, nttVars >>

SetCheckedCall ==
    /\ c_pc = "start"
    /\ c_args.op = "set_checked"
    /\ c_pc' = "returned"
    /\ c_out' = ScalarSetChecked(c_args.self, c_args.i, c_args.scalar)
    /\ UNCHANGED c_args
    /\ UNCHANGED << pcsVars, merkleVars, nttVars >>

GetPackedSliceCheckedCall ==
    /\ c_pc = "start"
    /\ c_args.op = "get_packed_slice_checked"
    /\ c_pc' = "returned"
    /\ c_out' = [packed |-> c_args.packed,
                 result |-> get_packed_slice_checked(c_args.packed, c_args.WIDTH, c_args.i)]
    /\ UNCHANGED c_args
    /\ UNCHANGED << pcsVars, merkleVars, nttVars >>

SetPackedSliceCheckedCall ==
    /\ c_pc = "start"
    /\ c_args.op = "set_packed_slice_checked"
    /\ c_pc' = "returned"
    /\ c_out' = set_packed_slice_checked(c_args.packed, c_args.WIDTH, c_args.i, c_args.scalar)
    /\ UNCHANGED c_args
    /\ UNCHANGED << pcsVars, merkleVars, nttVars >>

InitPacked ==
    /\ OthersIdle
    /\ c_pc = "start"
    /\ c_args \in PackedScalarCalls \cup PackedSliceCalls
    /\ c_out = None
NextPacked ==
    \/ GetCheckedCall
    \/ SetCheckedCall
    \/ GetPackedSliceCheckedCall
    \/ SetPackedSliceCheckedCall
SpecPacked == InitPacked /\ [][NextPacked]_vars

\* A conversion from one 128-bit field to the other and back

ConvertCalls ==
    { [op |-> "convert", from |-> f, v |-> v] : f \in {"polyval", "tower"}, v \in ConvertSeeds }

\* The value to convert, and where the call stands after the conversion
ConvertInput == IF c_pc = "start" THEN c_args.v ELSE c_out.there
ConvertStore(value) ==
    /\ c_pc' = IF c_pc = "start" THEN "converted" ELSE "converted_back"
    /\ c_out' = IF c_pc = "start" THEN [there |-> value] ELSE [there |-> c_out.there, back |-> value]

\* From<BinaryField128bPolyval> for BinaryField128b
TowerFromPolyvalCall ==
    /\ \/ c_pc = "start" /\ c_args.op = "convert" /\ c_args.from = "polyval"
       \/ c_pc = "converted" /\ c_args.from = "tower"
    /\ ConvertStore(TowerFromPolyval(ConvertInput))
    /\ UNCHANGED c_args
    /\ UNCHANGED << pcsVars, merkleVars, nttVars >>

\* From<BinaryField128b> for BinaryField128bPolyval
PolyvalFromTowerCall ==
    /\ \/ c_pc = "start" /\ c_args.op = "convert" /\ c_args.from = "tower"
       \/ c_pc = "converted" /\ c_args.from = "polyval"
    /\ ConvertStore(PolyvalFromTower(ConvertInput))
    /\ UNCHANGED c_args
    /\ UNCHANGED << pcsVars, merkleVars, nttVars >>

InitConvert ==
    /\ OthersIdle
    /\ c_pc = "start"
    /\ c_args \in ConvertCalls
    /\ c_out = None
NextConvert == TowerFromPolyvalCall \/ PolyvalFromTowerCall
SpecConvert == InitConvert /\ [][NextConvert]_vars

\* PackedAlgebra32: products with BinaryField32b scalars, and a sum followed
\* by a product

AlgebraMulCalls ==
    { [op |-> "mul", x |-> x, m |-> m, n |-> n] :
        x \in AlgebraSeeds, m \in AlgebraScalars, n \in { 1, 6, 65536, 19660806 } }

AlgebraAddCalls ==
    { [op |-> "add", x |-> x, y |-> y, m |-> m] :
        x \in AlgebraSeeds, y \in AlgebraSeeds, m \in { 0, 3, 300, 1073741829 } }

\* impl Add for PackedAlgebra32
AlgebraAddCall ==
    /\ c_pc = "start"
    /\ c_args.op = "add"
    /\ c_pc' = "added"
    /\ c_out' = << packed_tower_add(c_args.x, c_args.y) >>
    /\ UNCHANGED c_args
    /\ UNCHANGED << pcsVars, merkleVars, nttVars >>

\* impl Mul<BinaryField32b> for PackedAlgebra32: of x by m, then of the
\* product by n; or of the sum by m
AlgebraMulCall ==
    /\ \/ c_pc = "start" /\ c_args.op = "mul"
       \/ c_pc \in {"multiplied", "added"}
    /\ c_pc' = IF c_pc = "start" THEN "multiplied" ELSE "multiplied_last"
    /\ c_out' = IF c_pc = "start" THEN << PackedMul32(c_args.x, c_args.m) >>
                ELSE Append(c_out, PackedMul32(c_out[1],
                                               IF c_pc = "added" THEN c_args.m ELSE c_args.n))
    /\ UNCHANGED c_args
    /\ UNCHANGED << pcsVars, merkleVars, nttVars >>

InitAlgebra ==
    /\ OthersIdle
    /\ c_pc = "start"
    /\ c_args \in AlgebraMulCalls \cup AlgebraAddCalls
    /\ c_out = None
NextAlgebra == AlgebraAddCall \/ AlgebraMulCall
SpecAlgebra == InitAlgebra /\ [][NextAlgebra]_vars

----------------------------------------------------------------------------
(* Properties of commit, prove and verify                                  *)

\* Every query is a column index below bound
QueriesBelow(bound) == \A i \in 1 .. Len(queries) : queries[i] < bound

\* C1: completeness. For a poly of length 2^n, n >= 2, the transform of
\* size n, any point of n+5 coordinates, the true evaluation and any list of
\* queries drawn from [0, cols): prove returns and verify returns, no
\* assertion failing on the way.
C1_Completeness ==
    (/\ Len(poly) >= 4
     /\ pc \in {"proved", "prove_panicked", "verified"}
     /\ QueriesBelow(encoded_poly.cols))
    => /\ pc /= "prove_panicked"
       /\ pc = "verified" => verdict = "ok"

\* C1 happens: a poly of 8 coefficients, a point with coordinates other than
\* 0 and 1, two different columns queried, and verify returned
C1_Witness ==
    /\ pc = "verified" /\ verdict = "ok"
    /\ Len(poly) = 8
    /\ \E j \in 1 .. Len(point) : point[j] > 1
    /\ Len(queries) = 2 /\ queries[1] /= queries[2]

\* C4: prove accepts every query index in [0, RATE*cols): for a poly of
\* length 2^n, n >= 2, it returns a proof that holds column q of the encoded
\* matrix and the Merkle path of leaf q for each query q.
C4_ProveAcceptsEveryColumn ==
    (/\ Len(poly) >= 4
     /\ pc \in {"proved", "prove_panicked"}
     /\ QueriesBelow(RATE * encoded_poly.cols))
    => /\ pc = "proved"
       /\ Len(proof.queried_columns) = Len(queries)
       /\ Len(proof.merkle_paths) = Len(queries)
       /\ \A i \in 1 .. Len(queries) :
             /\ proof.queried_columns[i]
                = [row \in 1 .. encoded_poly.rows |-> At(encoded_poly.code[row], queries[i])]
             /\ proof.merkle_paths[i] = get_merkle_path(merkle_tree, queries[i])

\* C5: scenario E1. For poly = [1] and a point of five zeros the evaluation
\* is 1, commit yields rows = 1 and cols = 1, and prove returns a folded_poly
\* of length 32 whose only nonzero entry is index 0.
C5_ScenarioE1 ==
    (poly = <<1>> /\ point = <<0, 0, 0, 0, 0>>)
    => /\ eval = 1
       /\ pc /= "start" => (encoded_poly.rows = 1 /\ encoded_poly.cols = 1)
       /\ pc /= "prove_panicked"
       /\ pc \in {"proved", "verified"}
          => /\ Len(proof.folded_poly) = 32
             /\ \A k \in 1 .. 32 : (proof.folded_poly[k] /= 0) <=> (k = 1)

\* C6: commit hashes every column. The tree has one leaf per column of the
\* encoded matrix, whose width is RATE*cols; leaf c is the hash of the rows
\* scalars of column c as little-endian words; the commitment is the root of
\* that tree with log2 cols.
C6_CommitHashesEveryColumn ==
    pc /= "start"
    => /\ \A row \in 1 .. encoded_poly.rows :
             Len(encoded_poly.code[row]) = RATE * encoded_poly.cols
       /\ Len(merkle_tree[TreeLen(merkle_tree) - 1]) = RATE * encoded_poly.cols
       /\ \A c \in 1 .. Len(merkle_tree[TreeLen(merkle_tree) - 1]) :
             merkle_tree[TreeLen(merkle_tree) - 1][c]
             = hash_field([row \in 1 .. encoded_poly.rows |-> encoded_poly.code[row][c]])
       /\ commitment = [commit |-> get_root(merkle_tree),
                        cols |-> TrailingZeros(encoded_poly.cols)]

\* C2: soundness for columns. After one scalar of one queried column of an
\* honest proof is changed, verify panics: the recomputed leaf hash does not
\* lead to the committed root.
C2_ColumnTamperPanics ==
    (pc = "verified" /\ tamper.kind = "column") => verdict = "panic: merkle assert"

\* C2 happens: the second of two queried columns was changed in its second
\* row, and verify panicked on the Merkle path
C2_Witness ==
    /\ pc = "verified" /\ tamper.kind = "column"
    /\ tamper.i = 1 /\ tamper.r = 1
    /\ verdict = "panic: merkle assert"

\* The changed entry of the folded polynomial lies in a queried column
TamperedColumnQueried ==
    \E i \in 1 .. Len(queries) : queries[i] = tamper.k \div PACKED_LANES

\* The weight the closing check of verify gives the changed entry
TamperedWeight ==
    At(compute_fourier_bases(PointTail(point, commitment.cols)), tamper.k)

\* C3 as stated: after one entry of folded_poly of an honest proof is
\* changed, verify panics, whatever the point and the query list.
C3_FoldedTamperPanics ==
    (pc = "verified" /\ tamper.kind = "folded") => verdict /= "ok"

\* C3 as amended: after entry k of folded_poly of an honest proof is changed,
\* verify panics exactly when column k div 32 is among the queries (the query
\* assert fails) or entry k of compute_fourier_bases(tail of the point) is
\* not zero (the closing assert fails); otherwise verify returns.
C3_FoldedTamperPanicsWhenSeen ==
    (pc = "verified" /\ tamper.kind = "folded")
    => verdict = IF TamperedColumnQueried THEN "panic: query assert"
                 ELSE IF TamperedWeight /= 0 THEN "panic: eval assert"
                 ELSE "ok"

\* C3 happens: an entry of a column that is not queried was changed, some
\* other column is queried, and verify panicked on its closing assert
C3_Witness ==
    /\ pc = "verified" /\ tamper.kind = "folded"
    /\ Len(queries) >= 1 /\ ~TamperedColumnQueried
    /\ verdict = "panic: eval assert"

----------------------------------------------------------------------------
(* Properties of the Merkle tree                                           *)

\* C7: membership round trip. For a tree over 2^d leaves and a leaf index
\* i < 2^d, get_merkle_path returns d digests, entry k being the node at
\* index (i >> k) XOR 1 of layer d-k, and verify_merkle_path of the root,
\* leaf i, i and that path succeeds.
C7_MerkleRoundTrip ==
    LET d == TrailingZeros(Len(m_leaves))
        index_k(k) == m_index \div Pow2(k)
        xor_one(x) == IF x % 2 = 0 THEN x + 1 ELSE x - 1
    IN  /\ m_pc = "path_panicked" => m_index >= Len(m_leaves)
        /\ (m_pc \in {"path", "checked"} /\ m_index < Len(m_leaves))
           => /\ Len(m_path) = d
              /\ \A k \in 0 .. (d - 1) :
                    m_path[k + 1] = m_tree[d - k][xor_one(index_k(k)) + 1]
        /\ m_pc = "checked" => m_ok

\* C7 happens: the path of leaf 2 of four leaves was checked against the root
C7_Witness ==
    /\ m_pc = "checked" /\ m_ok
    /\ Len(m_leaves) = 4 /\ m_index = 2 /\ Len(m_path) = 2

\* C8: tree structure. After merklize over 2^d leaves the tree has the
\* layers 0..d, layer k holds 2^k digests, layer d is the leaves in order,
\* layer 0 is the root get_root returns, and node i of a layer k < d is the
\* hash of nodes 2i and 2i+1 of layer k+1 concatenated.
C8_MerkleTreeStructure ==
    m_pc \in {"built", "path", "path_panicked", "checked"}
    => LET d == TrailingZeros(Len(m_leaves))
       IN  /\ Len(m_leaves) = Pow2(d)
           /\ DOMAIN m_tree = 0 .. d
           /\ \A k \in 0 .. d : Len(m_tree[k]) = Pow2(k)
           /\ m_tree[d] = m_leaves
           /\ m_tree[0] = << get_root(m_tree) >>
           /\ \A k \in 0 .. (d - 1) : \A i \in 0 .. (Pow2(k) - 1) :
                 m_tree[k][i + 1]
                 = Keccak256(<< m_tree[k + 1][2 * i + 1], m_tree[k + 1][2 * i + 2] >>)

\* C8 happens: a tree was built over four leaves, the first two different
C8_Witness ==
    /\ m_pc = "built" /\ Len(m_leaves) = 4 /\ m_leaves[1] /= m_leaves[2]
    /\ Len(m_tree[1]) = 2

\* C9: merklize panics and builds no tree when the number of leaves is not a
\* power of two, zero included.
C9_MerklizeRejectsNonPowerOfTwo ==
    (m_pc /= "start" /\ \A e \in 0 .. MaxLeaves : Len(m_leaves) /= Pow2(e))
    => (m_pc = "merklize_panicked" /\ m_tree = None)

\* C9 happens: merklize was called on no leaves and panicked
C9_Witness ==
    /\ m_pc = "merklize_panicked" /\ Len(m_leaves) = 0 /\ m_tree = None

----------------------------------------------------------------------------
(* Properties of the transform                                             *)

\* C10: round trip. For a vector of length 2^k, k <= log_size, and any
\* coset, neither transform panics, and inverse after forward and forward
\* after inverse both give the vector back, for BinaryField32b and for
\* PackedAlgebra32 coefficients.
C10_NttRoundTrip ==
    Len(n_orig) <= Pow2(n_ntt.log_transform_size)
    => /\ n_pc /= "panicked"
       /\ n_pc \in {"fwd_inv", "inv_fwd"} => n_coeffs = n_orig

\* C10 happens: four packed coefficients went forward and back on coset 3
C10_Witness ==
    /\ n_pc = "fwd_inv" /\ n_ty = "P32"
    /\ Len(n_orig) = 4 /\ n_coset = 3
    /\ n_coeffs = n_orig

\* C11: evaluation. For a BinaryField32b vector c of length 2^k,
\* k <= log_size, forward_ntt(c, 0) is the vector of the naive evaluations
\* poly_eval(c, i) with each adjacent pair swapped: entry i is
\* poly_eval(c, i XOR 1).
C11_NttEvaluation ==
    (/\ n_pc = "fwd" /\ n_ty = "F32" /\ n_coset = 0
     /\ Len(n_orig) <= Pow2(n_ntt.log_transform_size))
    => /\ Len(n_coeffs) = Len(n_orig)
       /\ \A i \in 0 .. (Len(n_orig) - 1) :
             n_coeffs[i + 1] = poly_eval(n_orig, IF i % 2 = 0 THEN i + 1 ELSE i - 1)

\* C11 happens: four coefficients, not all the same, went forward on coset 0
\* under a transform built for more, and the output is not the input
C11_Witness ==
    /\ n_pc = "fwd" /\ n_ty = "F32" /\ n_coset = 0
    /\ Len(n_orig) = 4 /\ n_ntt.log_transform_size = 2
    /\ n_orig[2] /= n_orig[3] /\ n_coeffs /= n_orig
    /\ n_coeffs[1] = poly_eval(n_orig, 1)

\* The block of the codeword at positions [i*L, (i+1)*L), L the length of
\* the message
CodeBlock(code, i, L) == SubSeq(code, i * L + 1, (i + 1) * L)

\* C12: encode is systematic with rate 4. For a message m of length L the
\* codeword has length 4L, its first L positions are m, and block i = 1, 2, 3
\* is forward_ntt(inverse_ntt(m, coset 0), coset i*L); m is left as it was.
\* The same is stated of encode_extension over packed elements, L being the
\* number of packed elements.
C12_EncodeSystematic ==
    n_pc = "encoded"
    => /\ Len(n_coeffs) = RATE * Len(n_orig)
       /\ CodeBlock(n_coeffs, 0, Len(n_orig)) = n_orig
       /\ \A i \in 1 .. (RATE - 1) :
             CodeBlock(n_coeffs, i, Len(n_orig))
                = forward_ntt(n_ty, n_ntt, inverse_ntt(n_ty, n_ntt, n_orig, 0),
                              i * Len(n_orig))

\* C13: the shape of the Code. For a poly of 2^v entries Code::new takes
\* log_cols = min((v+1)/2, (2^PACKING_DEGREE + PACKING_DEGREE) - log2 RATE)
\* and log_rows = v - log_cols, so that rows * cols = 2^v; the matrix has
\* `rows` rows and every encoded row has RATE * cols entries.
C13_CodeShape ==
    c_pc = "code_new"
    => /\ c_out.log_cols
            = Min((c_args.variables + 1) \div 2,
                  (Pow2(PACKING_DEGREE) + PACKING_DEGREE) - TrailingZeros(RATE))
       /\ c_out.log_rows = c_args.variables - c_out.log_cols
       /\ c_out.log_rows >= 0
       /\ c_out.code /= None
            => /\ c_out.code.cols = Pow2(c_out.log_cols)
               /\ c_out.code.rows = Pow2(c_out.log_rows)
               /\ c_out.code.rows * c_out.code.cols = Len(c_args.poly)
               /\ Len(c_out.code.code) = c_out.code.rows
               /\ \A r \in 1 .. Len(c_out.code.code) :
                     Len(c_out.code.code[r]) = RATE * c_out.code.cols

\* The product over the coordinates k < upto of r[k] where bit |r|-1-k of i
\* is 1 and of 1 - r[k] where it is 0
RECURSIVE LagrangeProd(_, _, _)
LagrangeProd(r, i, upto) ==
    IF upto = 0 THEN 1
    ELSE FMul(LagrangeProd(r, i, upto - 1),
              IF Bit(i, Len(r) - upto) = 1 THEN r[upto] ELSE FAdd(1, r[upto]))

\* The field sum of the first n entries
RECURSIVE FieldSum(_, _)
FieldSum(s, n) == IF n = 0 THEN 0 ELSE FAdd(FieldSum(s, n - 1), s[n])

\* C14: compute_fourier_bases is the multilinear Lagrange basis. For a
\* non-empty r the result has 2^|r| entries, entry i is the product over k of
\* r[k] if bit |r|-1-k of i is 1 and 1 - r[k] otherwise, the entries sum to
\* 1, and for a point of zeros and ones exactly one entry is 1 and the
\* others are 0.
C14_FourierBasesLagrange ==
    c_pc = "fourier"
    => /\ Len(c_out) = Pow2(Len(c_args))
       /\ \A i \in 0 .. (Len(c_out) - 1) :
             c_out[i + 1] = LagrangeProd(c_args, i, Len(c_args))
       /\ FieldSum(c_out, Len(c_out)) = 1
       /\ (\A k \in 1 .. Len(c_args) : c_args[k] \in {0, 1})
            => /\ Cardinality({ i \in 1 .. Len(c_out) : c_out[i] = 1 }) = 1
               /\ \A i \in 1 .. Len(c_out) : c_out[i] \in {0, 1}

\* A point of three coordinates outside {0, 1} whose table has an entry
\* outside {0, 1}
C14_Witness ==
    /\ c_pc = "fourier"
    /\ c_args = << 300, 6, 300 >>
    /\ Len(c_out) = 8
    /\ c_out[4] = FMul(FMul(FAdd(1, 300), 6), 300)
    /\ c_out[4] \notin {0, 1}

\* The sum of scalars[r] over the rows r < upto whose entry poly[r*cols + j]
\* has bit b set
RECURSIVE RowBitSum(_, _, _, _, _, _)
RowBitSum(poly_, cols, scalars, j, b, upto) ==
    IF upto = 0 THEN 0
    ELSE FAdd(RowBitSum(poly_, cols, scalars, j, b, upto - 1),
              IF Bit(poly_[(upto - 1) * cols + j + 1], b) = 1 THEN scalars[upto] ELSE 0)

\* The multilinear polynomial whose coefficient i is bit i mod 32 of entry
\* i div 32 of poly_, evaluated at point_: the sum over the set coefficients
\* lo <= i < lo + n of the Lagrange product of i
RECURSIVE MultilinearEval(_, _, _, _)
MultilinearEval(poly_, point_, lo, n) ==
    IF n = 1
    THEN IF Bit(poly_[(lo \div 32) + 1], lo % 32) = 1
         THEN LagrangeProd(point_, lo, Len(point_)) ELSE 0
    ELSE FAdd(MultilinearEval(poly_, point_, lo, n \div 2),
              MultilinearEval(poly_, point_, lo + (n \div 2), n - (n \div 2)))

\* C15: the fold. The folded_poly of prove has cols * 32 entries; entry
\* j*32 + b is the sum of fourier_bases(head)[r] over the rows r whose entry
\* poly[r*cols + j] has bit b set; and the sum of fourier_bases(tail)[k] *
\* folded_poly[k] is the evaluation of the poly at the point.
C15_Fold ==
    (pc = "proved" /\ tamper.kind = "none")
    => /\ Len(proof.folded_poly) = encoded_poly.cols * 32
       /\ \A k \in 0 .. (Len(proof.folded_poly) - 1) :
             proof.folded_poly[k + 1]
                = RowBitSum(poly, encoded_poly.cols,
                            compute_fourier_bases(
                                PointHead(point, TrailingZeros(encoded_poly.cols))),
                            k \div 32, k % 32, encoded_poly.rows)
       /\ linear_combination(
              compute_fourier_bases(PointTail(point, TrailingZeros(encoded_poly.cols))),
              proof.folded_poly)
            = MultilinearEval(poly, point, 0, 32 * Len(poly))

\* A poly of 8 entries folded at a point whose head has a coordinate other
\* than 0 and 1, giving a folded entry other than 0 and 1
C15_Witness ==
    /\ pc = "proved" /\ tamper.kind = "none"
    /\ Len(poly) = 8 /\ encoded_poly.rows = 2
    /\ point[1] > 1
    /\ \E k \in 1 .. Len(proof.folded_poly) : proof.folded_poly[k] > 1
    /\ eval > 1

\* What the loop returns when its tasks run one after the other
ParSerial(call) ==
    CASE call.kind = "encode_interleaved" ->
            encode_interleaved(call.poly, call.ntt, call.rows, Len(call.poly[1]))
      [] call.kind = "commit" -> LeafHashes(call.encoded_poly)
      [] call.kind = "merklize" -> HashLayer(call.lower_layer)
      [] call.kind = "make_linear_combination" ->
            make_linear_combination(call.poly, call.scalars)
      [] call.kind = "col" -> Col(call.code, call.col)
      [] call.kind = "unpacked_linear_combination" ->
            unpacked_linear_combination(call.scalars, call.vals)

\* The part of the output that task i owns
ParOwn(call, out, i) ==
    IF call.kind = "make_linear_combination"
    THEN SubSeq(out, i * 32 + 1, (i + 1) * 32)
    ELSE out[i + 1]

\* The items of the reduction added from left to right
RECURSIVE SerialSum(_, _)
SerialSum(call, n) ==
    IF n = 0 THEN 0 ELSE FAdd(SerialSum(call, n - 1), ReduceItem(call, n - 1))

\* C16: schedule independence. In every data-parallel loop a task writes
\* only its own output index: whatever the other pieces have done, the part
\* of a task that has run is the serial result and the part of a task that
\* has not started is as it was; so when every piece has finished the output
\* is the serial result. A parallel reduction ends, for every grouping and
\* order of its partial sums, in the left-to-right serial sum.
C16_ScheduleIndependence ==
    c_pc = "par"
    => /\ c_args.call.kind \in TaskLoops
            => \A p \in 1 .. Len(c_out.done) :
                 \A i \in c_args.cuts[p] .. (c_args.cuts[p + 1] - 1) :
                    /\ c_out.done[p] >= (i - c_args.cuts[p] + 1) * ParStepsPer(c_args.call)
                         => ParOwn(c_args.call, c_out.out, i)
                              = ParOwn(c_args.call, ParSerial(c_args.call), i)
                    /\ c_out.done[p] <= (i - c_args.cuts[p]) * ParStepsPer(c_args.call)
                         => ParOwn(c_args.call, c_out.out, i)
                              = ParOwn(c_args.call, ParInitOut(c_args.call), i)
       /\ (/\ c_args.call.kind \in Reductions
           /\ Cardinality(c_out.live) = 1
           /\ \A p \in 1 .. Len(c_out.done) : c_out.done[p] = PieceSteps(c_args, p))
            => \A a \in c_out.live :
                  c_out.acc[a] = SerialSum(c_args.call, ParLen(c_args.call))

\* The lanes of unpacked_linear_combination ran as four pieces, the last
\* piece finishing while the first had not started, and then all finished
C16_Witness ==
    /\ c_pc = "par"
    /\ c_args.call.kind = "unpacked_linear_combination"
    /\ Len(c_out.done) = 4
    /\ \A p \in 1 .. 4 : c_out.done[p] = PieceSteps(c_args, p)
    /\ c_out.out = unpacked_linear_combination(c_args.call.scalars, c_args.call.vals)
    /\ c_out.out /= ParInitOut(c_args.call)

----------------------------------------------------------------------------
(* Properties of M512                                                      *)

\* C17: the shifts of M512. For every 512-bit x and every 0 <= k < 512,
\* x << k and x >> k as computed limb by limb over the four 128-bit limbs
\* are the logical shifts taken bit by bit; for k >= 512 the result is zero.
C17_M512Shifts ==
    /\ c_pc = "shl"
         => c_out = IF c_args.rhs >= 512 THEN { }
                    ELSE { b + c_args.rhs : b \in { c \in c_args.x : c + c_args.rhs < 512 } }
    /\ c_pc = "shr"
         => c_out = IF c_args.rhs >= 512 THEN { }
                    ELSE { b - c_args.rhs : b \in { c \in c_args.x : c >= c_args.rhs } }

\* A shift by 200 bits that carries bits of two limbs into one
C17_Witness ==
    /\ c_pc = "shl"
    /\ c_args.rhs = 200
    /\ c_args.x = { b \in 0 .. 511 : b % 3 = 0 }
    /\ 200 \in c_out /\ 509 \in c_out /\ 199 \notin c_out
    /\ \E b \in c_out : b \div 128 = 3 /\ (b - 200) \div 128 = 1
    /\ \E b \in c_out : b \div 128 = 3 /\ (b - 200) \div 128 = 2

\* Block i of x, the blocks being `len` bits long
Block(x, i, len) == { b - i * len : b \in { c \in x : c \div len = i } }

\* C18: interleave of M512. For log_block in 0..6 and blocks of 2^log_block
\* bits, interleave(a, b, log_block) = (c, d) where for every even block
\* index i: c[i] = a[i], c[i+1] = b[i], d[i] = a[i+1], d[i+1] = b[i+1];
\* interleaving (c, d) again gives (a, b) back; log_block >= 7 panics.
C18_M512Interleave ==
    /\ c_pc = "interleaved"
         => /\ c_args.log_block_len \in 0 .. 6
            /\ \A i \in { j \in 0 .. ((512 \div Pow2(c_args.log_block_len)) - 1) : j % 2 = 0 } :
                 /\ Block(c_out[1], i, Pow2(c_args.log_block_len))
                      = Block(c_args.a, i, Pow2(c_args.log_block_len))
                 /\ Block(c_out[1], i + 1, Pow2(c_args.log_block_len))
                      = Block(c_args.b, i, Pow2(c_args.log_block_len))
                 /\ Block(c_out[2], i, Pow2(c_args.log_block_len))
                      = Block(c_args.a, i + 1, Pow2(c_args.log_block_len))
                 /\ Block(c_out[2], i + 1, Pow2(c_args.log_block_len))
                      = Block(c_args.b, i + 1, Pow2(c_args.log_block_len))
    /\ c_pc = "interleaved_twice" => c_out = << c_args.a, c_args.b >>
    /\ (c_pc = "panicked" /\ c_args.op = "interleave") => c_args.log_block_len >= 7
    /\ (c_pc \in {"interleaved", "interleaved_twice"}) => c_args.log_block_len < 7

\* Two different aperiodic values interleaved by 16-bit blocks and back
C18_Witness ==
    /\ c_pc = "interleaved_twice"
    /\ c_args.log_block_len = 4
    /\ c_args.a = { b \in 0 .. 511 : b % 3 = 0 }
    /\ c_args.b = { b \in 0 .. 511 : (b * b + b \div 7) % 5 < 2 }
    /\ c_out[1] = c_args.a /\ c_out[2] = c_args.b
    /\ interleave_bits(c_args.a, c_args.b, 4) /= c_out

\* C19: broadcast into M512. For a scalar s of 2^t bits, t = 0..7,
\* broadcast(s) is the 512-bit value each of whose 2^t-bit lanes is s; for
\* widths below 8 bits the loop value |= value << 2^n, n = t..2, first tiles
\* s into a whole byte.
C19_M512Broadcast ==
    c_pc = "broadcast"
    => /\ \A j \in 0 .. ((512 \div Pow2(c_args.tower_level)) - 1) :
             Block(c_out.result, j, Pow2(c_args.tower_level)) = ScalarBits(c_args)
       /\ c_out.result \subseteq 0 .. 511
       /\ c_args.tower_level < 3
            => /\ c_out.value \subseteq 0 .. 7
               /\ \A j \in 0 .. ((8 \div Pow2(c_args.tower_level)) - 1) :
                     Block(c_out.value, j, Pow2(c_args.tower_level)) = ScalarBits(c_args)
       /\ c_args.tower_level >= 3 => c_out.value = ScalarBits(c_args)

\* The 2-bit scalar 0b10 broadcast: the byte 0xAA in all 64 bytes
C19_Witness ==
    /\ c_pc = "broadcast"
    /\ c_args.tower_level = 1
    /\ ScalarBits(c_args) = { 1 }
    /\ c_out.value = { 1, 3, 5, 7 }
    /\ c_out.result = { b \in 0 .. 511 : b % 2 = 1 }

----------------------------------------------------------------------------
(* Properties of BinaryField128bPolyval                                    *)

\* C20: polyval inversion. invert_or_zero(0) = 0; for x /= 0 the product of
\* x and invert_or_zero(x) is ONE; invert(x) is an empty CtOption exactly
\* when x = 0, and otherwise holds invert_or_zero(x).
C20_PolyvalInversion ==
    /\ (c_pc \in {"inverted_or_zero", "inverted"} /\ c_args.x = { })
           => c_out.inverse = { }
    /\ (c_pc \in {"inverted_or_zero", "inverted"} /\ c_args.x /= { })
           => PolyvalMul(c_args.x, c_out.inverse) = POLYVAL_ONE
    /\ c_pc = "inverted"
           => /\ c_out.option.is_some = (c_args.x /= { })
              /\ c_args.x /= { } => c_out.option.value = c_out.inverse

\* A value that is neither zero nor ONE has been inverted by both functions
C20_Witness ==
    /\ c_pc = "inverted"
    /\ c_args.x = { 1, 5, 77 }
    /\ c_out.option.is_some
    /\ c_out.inverse \notin { { }, POLYVAL_ONE, c_args.x }

\* C21: basis(i) is Err(ExtensionDegreeMismatch) exactly when i >= 128 and
\* otherwise Ok(new(1 << i)); from_bases(bits) is Err(ExtensionDegreeMismatch)
\* exactly when more than 128 bits are given and otherwise
\* Ok(new(sum of bits[i] << i)); both calls return.
C21_PolyvalDegreeErrors ==
    /\ (c_args /= None /\ c_args.op = "basis")
           => /\ c_pc \in {"start", "basis"}
              /\ c_pc = "basis"
                     => IF c_args.i >= 128 THEN c_out = Err("ExtensionDegreeMismatch")
                        ELSE c_out = Ok(PolyvalNew({ c_args.i }))
    /\ (c_args /= None /\ c_args.op = "from_bases")
           => /\ c_pc \in {"start", "from_bases"}
              /\ c_pc = "from_bases"
                     => IF Len(c_args.base_elems) > 128
                        THEN c_out = Err("ExtensionDegreeMismatch")
                        ELSE c_out = Ok(PolyvalNew({ i \in 0 .. Len(c_args.base_elems) - 1 :
                                                       c_args.base_elems[i + 1] = 1 }))

\* from_bases has taken exactly 128 bits, the last of them set, and returned
\* a value
C21_Witness ==
    /\ c_pc = "from_bases"
    /\ c_args.op = "from_bases"
    /\ Len(c_args.base_elems) = 128
    /\ c_args.base_elems[128] = 1
    /\ c_out.ok
    /\ c_out.value /= { }

----------------------------------------------------------------------------
(* Properties of the checked accessors of PackedField                      *)

\* The scalar at index j of a slice of elements of WIDTH lanes
ScalarAt(packed, WIDTH, j) ==
    IF WIDTH = 1 THEN packed[j + 1] ELSE packed[(j \div WIDTH) + 1][(j % WIDTH) + 1]

\* C22: index errors leave the state unchanged. For a scalar as a packed
\* field of width 1, get_checked and set_checked return
\* Err(IndexOutOfRange{index: i, max: 1}) exactly when i /= 0, and the failed
\* set_checked leaves the value as it was. For a slice, the two slice
\* helpers return Err(IndexOutOfRange{index: i, max: len * WIDTH}) exactly
\* when i >= len * WIDTH; a failed set changes no element and a successful
\* set changes lane i mod WIDTH of element i div WIDTH and nothing else.
C22_IndexErrors ==
    (c_pc = "returned") =>
        /\ c_args.op = "get_checked"
               => c_out.result = IF c_args.i /= 0 THEN IndexOutOfRange(c_args.i, 1)
                                 ELSE Ok(c_args.self)
        /\ c_args.op = "set_checked"
               => IF c_args.i /= 0
                  THEN c_out.result = IndexOutOfRange(c_args.i, 1) /\ c_out.self = c_args.self
                  ELSE c_out.result.ok /\ c_out.self = c_args.scalar
        /\ c_args.op = "get_packed_slice_checked"
               => c_out.result =
                      IF c_args.i >= Len(c_args.packed) * c_args.WIDTH
                      THEN IndexOutOfRange(c_args.i, Len(c_args.packed) * c_args.WIDTH)
                      ELSE Ok(ScalarAt(c_args.packed, c_args.WIDTH, c_args.i))
        /\ c_args.op = "set_packed_slice_checked"
               => IF c_args.i >= Len(c_args.packed) * c_args.WIDTH
                  THEN /\ c_out.result
                              = IndexOutOfRange(c_args.i, Len(c_args.packed) * c_args.WIDTH)
                       /\ c_out.packed = c_args.packed
                  ELSE /\ c_out.result.ok
                       /\ Len(c_out.packed) = Len(c_args.packed)
                       /\ \A j \in 0 .. Len(c_args.packed) * c_args.WIDTH - 1 :
                              ScalarAt(c_out.packed, c_args.WIDTH, j)
                                  = IF j = c_args.i THEN c_args.scalar
                                    ELSE ScalarAt(c_args.packed, c_args.WIDTH, j)

\* A set into lane 1 of the second element of a slice of four-lane elements
\* has succeeded and changed the slice
C22_Witness ==
    /\ c_pc = "returned"
    /\ c_args.op = "set_packed_slice_checked"
    /\ c_args.WIDTH = 4
    /\ c_args.i = 5
    /\ c_out.result.ok
    /\ c_out.packed /= c_args.packed
    /\ c_out.packed[2][2] = 77

----------------------------------------------------------------------------
(* Properties of the conversions between the 128-bit fields                *)

\* C23: the two conversion tables are inverses of each other. For every
\* 128-bit v, converting the polyval value v to the tower field and back
\* gives v, and converting the tower value v to polyval and back gives v, bit
\* for bit; in particular for every basis value 1 << i, i in [0, 128).
C23_ConversionRoundTrip ==
    c_pc = "converted_back" => c_out.back = c_args.v

\* The polyval basis element new(1 << 64) has gone to the tower field, where
\* it is another value, and come back
C23_Witness ==
    /\ c_pc = "converted_back"
    /\ c_args.from = "polyval"
    /\ c_args.v = PolyvalNew({ 64 })
    /\ c_out.there /= c_args.v
    /\ c_out.back = c_args.v

----------------------------------------------------------------------------
(* Properties of the multiplication of BinaryField128bPolyval              *)

\* The product of two polynomials over GF(2), each the set of its exponents
PolyMul(a, b) == { k \in 0 .. 254 : Cardinality({ i \in a : k - i \in b }) % 2 = 1 }

\* One step of the Montgomery reduction: the multiple x^i * modulus is added
\* when the coefficient of x^i is one
MontgomeryStep(t, modulus, i) ==
    IF i \in t THEN { k \in 0 .. 255 : (k \in t) /= (k - i \in modulus) } ELSE t

\* The steps lo .. hi of the reduction, in this order
RECURSIVE MontgomerySteps(_, _, _, _)
MontgomeryStepsUpper(t, modulus, lo, hi) ==
    IF t = { } THEN { } ELSE MontgomerySteps(t, modulus, lo, hi)
MontgomerySteps(t, modulus, lo, hi) ==
    IF lo = hi THEN MontgomeryStep(t, modulus, lo)
    ELSE MontgomeryStepsUpper(MontgomerySteps(t, modulus, lo, (lo + hi) \div 2), modulus,
                              (lo + hi) \div 2 + 1, hi)

\* a * b * x^(-128) modulo the polynomial of degree 128 with the exponents
\* of modulus: the low 128 coefficients of a * b are cleared by multiples of
\* the modulus, and what is left is divided by x^128
MontgomeryProduct(a, b, modulus) ==
    { k - 128 : k \in { j \in MontgomerySteps(PolyMul(a, b), modulus, 0, 127) : j >= 128 } }

\* The statement of C24 for a modulus
PolyvalMulIs(modulus) ==
    /\ c_pc = "multiplied"
           => /\ c_out = MontgomeryProduct(c_args.a, c_args.b, modulus)
              /\ c_args.b = POLYVAL_ONE => c_out = c_args.a
              /\ (c_args.a = PolyvalNew(TEST_MUL_A) /\ c_args.b = PolyvalNew(TEST_MUL_B))
                     => c_out = PolyvalNew(TEST_MUL_C)
    /\ c_pc = "from_montgomery" => c_out.raw = c_args.value

\* C24: simd_montgomery_multiply(a, b) is the Montgomery product
\* a * b * x^(-128) modulo x^128 + x^127 + x^126 + 1; v * ONE = v; the
\* product of test_mul; from_montgomery(new(v)) has the raw value v.
C24_PolyvalMulStated == PolyvalMulIs({ 0, 126, 127, 128 })

\* What the reduction of the code computes: the Montgomery product modulo
\* x^128 + x^127 + x^126 + x^121 + 1, with the term x^121 that the modulus
\* named in the doc comment of polyval.rs lacks
PolyvalMulReducesByX121 == PolyvalMulIs({ 0, 121, 126, 127, 128 })

\* The product of test_mul has been taken
TestMulTaken ==
    /\ c_pc = "multiplied"
    /\ c_args.a = PolyvalNew(TEST_MUL_A)
    /\ c_args.b = PolyvalNew(TEST_MUL_B)
    /\ c_out = PolyvalNew(TEST_MUL_C)

\* C30: the decomposition of a polyval element into bits and back. For every
\* x in BinaryField128bPolyval, from_bases(x.iter_bases()) = Ok(x).
C30_BasisRoundTrip ==
    (c_pc = "from_bases" /\ c_args.op = "iter_bases") => c_out = Ok(c_args.x)

----------------------------------------------------------------------------
(* Properties of the twiddles                                              *)

\* The coset twiddle as stated, added to twiddles[r][b]: the product of
\* (coset + i) over i < 2^r, over the same product for basis(r); for r = 0
\* the products have the one factor i = 0
StatedTwiddle(ntt_, r, b, coset) ==
    FAdd(At(At(ntt_.twiddles, r), b),
         FMul(VanishingProd(coset, Pow2(r)), InvertOrZero(VanishingProd(Basis(r), Pow2(r)))))

\* The first `done` butterflies of round r with the stated twiddles
RECURSIVE StatedRound(_, _, _, _, _, _, _, _)
StatedRound(ty, fwd, ntt_, coeffs, coset, rounds, r, done) ==
    IF done = 0 THEN coeffs
    ELSE Butterfly(ty, fwd,
                   StatedRound(ty, fwd, ntt_, coeffs, coset, rounds, r, done - 1),
                   ((done - 1) % Pow2(rounds - 1 - r)) * Pow2(r + 1)
                       + ((done - 1) \div Pow2(rounds - 1 - r)),
                   ((done - 1) % Pow2(rounds - 1 - r)) * Pow2(r + 1)
                       + ((done - 1) \div Pow2(rounds - 1 - r)) + Pow2(r),
                   StatedTwiddle(ntt_, r, (done - 1) % Pow2(rounds - 1 - r), coset))

\* The rounds of a transform with the stated twiddles, in the order of
\* forward_ntt and of inverse_ntt
RECURSIVE StatedRounds(_, _, _, _, _, _, _)
StatedRounds(ty, fwd, ntt_, coeffs, coset, rounds, n) ==
    IF n = 0 THEN coeffs
    ELSE IF fwd
         THEN StatedRounds(ty, fwd, ntt_,
                           StatedRound(ty, fwd, ntt_, coeffs, coset, rounds, n - 1,
                                       Pow2(rounds - 1)),
                           coset, rounds, n - 1)
         ELSE StatedRound(ty, fwd, ntt_,
                          StatedRounds(ty, fwd, ntt_, coeffs, coset, rounds, n - 1),
                          coset, rounds, n - 1, Pow2(rounds - 1))

\* C25: in every round r >= 0 of forward_ntt and inverse_ntt and for every
\* coset, the coset twiddle added to twiddles[r][b] is
\* vanishing_map(coset, r) * vanishing_map(basis(r), r)^(-1) with
\* vanishing_map(x, s) the product of (x + i) over i < 2^s for every s >= 0,
\* so that the round-0 coset twiddle is the coset itself: the transforms are
\* the ones these twiddles give.
C25_CosetTwiddle ==
    (/\ n_pc \in {"fwd", "inv"}
     /\ Len(n_orig) <= Pow2(n_ntt.log_transform_size))
    => n_coeffs = StatedRounds(n_ty, n_pc = "fwd", n_ntt, n_orig, n_coset,
                               Rounds(n_orig), Rounds(n_orig))

----------------------------------------------------------------------------
(* Properties of PackedAlgebra32                                           *)

\* The product of two elements of the 32-bit tower field, each given by its
\* low and its high 16 bits: the low and the high 16 bits of
\* (a0 + a1*X)(b0 + b1*X) with X^2 = X * 256 + 1
F32MulLo(a0, a1, b0, b1) == FAdd(FMul(a0, b0), FMul(a1, b1))
F32MulHi(a0, a1, b0, b1) ==
    FAdd(FAdd(FMul(a0, b1), FMul(a1, b0)), FMul(FMul(a1, b1), 256))

\* Bit b of the product a * m in the 32-bit tower field
F32MulBit(a, m, b) ==
    IF b < 16 THEN Bit(F32MulLo(a % 65536, a \div 65536, m % 65536, m \div 65536), b)
    ELSE Bit(F32MulHi(a % 65536, a \div 65536, m % 65536, m \div 65536), b - 16)

\* x times the element of the 32-bit tower field with the halves lo and hi
PackedMulByHalves(x, lo, hi) ==
    PackedMulHalves(16, SubSeq(x, 1, 16), SubSeq(x, 17, 32), lo, hi)

\* C26: the action of BinaryField32b on PackedAlgebra32 agrees with the
\* multiplication of the field. If lane b of x is bit b of a, lane b of x * m
\* is bit b of a * m; and for every x, y, m, n: (x * m) * n = x * (m * n),
\* x * 1 = x, x * 0 = 0 and (x + y) * m = x * m + y * m.
C26_AlgebraAction ==
    /\ (c_pc = "multiplied" /\ \E a \in AlgebraBitSeeds : c_args.x = LanesOfBits(a))
           => \A a \in AlgebraBitSeeds :
                  c_args.x = LanesOfBits(a)
                      => \A b \in 0 .. PACKED_LANES - 1 :
                             c_out[1][b + 1] = F32MulBit(a, c_args.m, b)
    /\ c_pc = "multiplied"
           => /\ c_args.m = 1 => c_out[1] = c_args.x
              /\ c_args.m = 0 => c_out[1] = Zeros(PACKED_LANES)
    /\ (c_pc = "multiplied_last" /\ c_args.op = "mul")
           => c_out[2] = PackedMulByHalves(
                             c_args.x,
                             F32MulLo(c_args.m % 65536, c_args.m \div 65536,
                                      c_args.n % 65536, c_args.n \div 65536),
                             F32MulHi(c_args.m % 65536, c_args.m \div 65536,
                                      c_args.n % 65536, c_args.n \div 65536))
    /\ (c_pc = "multiplied_last" /\ c_args.op = "add")
           => c_out[2] = packed_tower_add(PackedMul32(c_args.x, c_args.m),
                                          PackedMul32(c_args.y, c_args.m))

\* The lanes of the bits of 0x40000005 have been multiplied by 0x012c0006,
\* both factors having bits in their high halves, and have changed
C26_Witness ==
    /\ c_pc = "multiplied"
    /\ c_args.x = LanesOfBits(1073741829)
    /\ c_args.m = 19660806
    /\ c_out[1] /= c_args.x
    /\ \E b \in 16 .. 31 : c_out[1][b + 1] = 1

----------------------------------------------------------------------------
(* Properties of the folded codeword                                       *)

\* The scalars of the head of the point, as prove and verify compute them
HeadScalars == compute_fourier_bases(PointHead(point, TrailingZeros(encoded_poly.cols)))

\* The folded polynomial of the committed poly under the head scalars
FoldedPoly == make_linear_combination(make_coeff_matrix(poly, encoded_poly.cols), HeadScalars)

\* Position q of the codeword of the folded polynomial equals the combination
\* of column q of the encoded matrix
FoldedColumnAgrees(q) ==
    At(encode_extension(FoldedPoly, ntt), q)
        = unpacked_linear_combination(HeadScalars, Col(encoded_poly, q))

\* The committed run has a head of the point to fold with
Foldable ==
    /\ pc = "committed"
    /\ ~FourierBasesPanics(PointHead(point, TrailingZeros(encoded_poly.cols)))

\* C27: for every poly, every head scalar vector of length rows and every
\* column index q in [0, RATE*cols) of the encoded matrix, position q of
\* encode_extension(folded_poly) equals unpacked_linear_combination of the
\* head scalars and column q of the encoded matrix.
C27_FoldingCommutes ==
    Foldable => \A q \in Range0(RATE * encoded_poly.cols) : FoldedColumnAgrees(q)

\* The same over the systematic columns only
C27_SystematicColumns ==
    Foldable => \A q \in Range0(encoded_poly.cols) : FoldedColumnAgrees(q)

\* The same over the codes of at most two columns
C27_NarrowCodes ==
    (Foldable /\ encoded_poly.cols <= 2)
        => \A q \in Range0(RATE * encoded_poly.cols) : FoldedColumnAgrees(q)

----------------------------------------------------------------------------
(* Properties of the twiddle table                                         *)

\* Row r of the table has 2^(log_size-1-r) entries, the first of them zero
RowShape(ntt_, r) ==
    /\ Len(At(ntt_.twiddles, r)) = Pow2(ntt_.log_transform_size - 1 - r)
    /\ At(At(ntt_.twiddles, r), 0) = 0

\* Row r holds its normalized generators at the powers of two and is additive
\* under XOR of the indices
RowSubsetSums(ntt_, r) ==
    /\ \A j \in Range0(ntt_.log_transform_size - 1 - r) :
          At(At(ntt_.twiddles, r), Pow2(j))
              = At(At(precompute_subspace_evals(ntt_.log_transform_size), r), j)
    /\ \A b, c \in Range0(Len(At(ntt_.twiddles, r))) :
          At(At(ntt_.twiddles, r), BitXor(b, c))
              = FAdd(At(At(ntt_.twiddles, r), b), At(At(ntt_.twiddles, r), c))

\* The rows of the table built for log size k open the rows of ntt_
TablePrefix(ntt_, smaller) ==
    \A r \in Range0(smaller.log_transform_size) :
       \A b \in Range0(Pow2(smaller.log_transform_size - 1 - r)) :
          At(At(ntt_.twiddles, r), b) = At(At(smaller.twiddles, r), b)

\* C28: for every log_size >= 1, AdditiveNTT::new(log_size) holds log_size
\* twiddle rows, row r has exactly 2^(log_size-1-r) entries, entry 0 of every
\* row is zero, each row is the table of XOR-subset sums of its normalized
\* generators, and the first 2^(k-1-r) entries of row r coincide with row r
\* of AdditiveNTT::new(k) for every k <= log_size.
C28_TwiddleTableShape ==
    n_ntt.log_transform_size >= 1 =>
        /\ Len(n_ntt.twiddles) = n_ntt.log_transform_size
        /\ \A r \in Range0(n_ntt.log_transform_size) :
              RowShape(n_ntt, r) /\ RowSubsetSums(n_ntt, r)
        /\ \A k \in 1 .. n_ntt.log_transform_size : TablePrefix(n_ntt, AdditiveNTT(k))

\* A table of six rows was built and a transform ran under it
C28_Witness ==
    /\ n_pc = "fwd"
    /\ n_ntt.log_transform_size = MaxTableLogSize
    /\ Len(At(n_ntt.twiddles, 0)) = 32
    /\ At(At(n_ntt.twiddles, 0), 3) = FAdd(At(At(n_ntt.twiddles, 0), 1), At(At(n_ntt.twiddles, 0), 2))
    /\ At(At(n_ntt.twiddles, 1), 1) /= 0

----------------------------------------------------------------------------
(* Properties of the shape of a proof                                      *)

\* Answer i of the proof has a path as long as the tree is deep and a column
\* of `rows` entries
AnswerShaped(i) ==
    /\ Len(proof.merkle_paths[i]) = TreeLen(merkle_tree) - 1
    /\ Len(proof.queried_columns[i]) = encoded_poly.rows

\* C29: verify never accepts a proof in which some merkle_paths[i] has a
\* length different from the depth of the committed tree or some
\* queried_columns[i] has a length different from rows; in particular a column
\* whose little-endian bytes are the concatenation of two child digests,
\* presented with a shortened path, is rejected.
C29_ProofShapeEnforced ==
    (pc = "verified" /\ verdict = "ok")
        => \A i \in 1 .. Len(proof.queried_columns) : AnswerShaped(i)

\* The Merkle check accepts every forged answer: the hash of the column is
\* the parent of the two digests, and the shortened path leads to the root
ForgedAnswerPassesMerkle ==
    (pc = "proved" /\ tamper.kind = "forged")
        => verify_merkle_path(commitment.commit,
                               hash_field(proof.queried_columns[tamper.i + 1]),
                               queries[tamper.i + 1],
                               proof.merkle_paths[tamper.i + 1])

\* With the point at zero and the one query at column 1, every forged answer
\* is accepted, whatever the bytes of the two digests are
ForgedAnswerAccepted ==
    (pc = "verified" /\ tamper.kind = "forged" /\ queries = <<1>>
        /\ point = [k \in 1 .. Len(point) |-> 0])
        => verdict = "ok"

====
